---------------------------- MODULE Spec2Model ----------------------------
(***************************************************************************)
(* A model of the KKU people scrapers (scripts/scrape_kku_people.py, the   *)
(* "th" variant, and scripts/scrape_kku_people_en.py, the "en" variant).   *)
(*                                                                         *)
(* A Python string is a sequence of one-character strings; a character     *)
(* outside ASCII is written by its code point ("U+0E01").                  *)
(***************************************************************************)
EXTENDS Integers, Sequences, FiniteSets, TLC

VARIABLES
    variant,    \* "th": scrape_kku_people.py, "en": scrape_kku_people_en.py
    upc,        \* URL helpers: position of the helper run
    u,          \* URL helpers: the input string
    n1,         \* URL helpers: _norm_abs(u)
    n2,         \* URL helpers: _norm_abs(_norm_abs(u))
    acc,        \* URL helpers: _is_profile_abs_url(u)
    prefer,     \* make_driver: os.environ.get("BROWSER", "auto").lower()
    attempts,   \* make_driver: the backends it tried to start, in order, each with its result
    session,    \* main: "none", "open" (make_driver returned it) or "closed" (driver.quit())
    quitCount,  \* main: how many times driver.quit() was executed
    pc,         \* main: the statement the run is at
    seedIdx,    \* main: the listing path being visited (its place in the seed list)
    page,       \* the page the session has loaded
    vlinks,     \* visit_and_collect: links
    tabIdx,     \* visit_and_collect: the tab label of the loop (its place in TAB_LABELS)
    found,      \* visit_and_collect: the set it returned
    links,      \* main: links (all_links in get_profile_links) while it is a set
    linkList,   \* main: links once it is the sorted list
    li,         \* main: the place in links of the loop over the profile pages
    people,     \* main: people
    log,        \* the pages navigated so far, in order, each with what became of it
    fileOut,    \* the documents written to kku_people.json
    stdoutOut,  \* the documents printed to standard output
    escaped,    \* an exception is on its way out of main(), or has left it
    spc,        \* _load_everything_in_view: its position
    clickRounds, \* _click_texty_buttons: rounds of its loop begun
    prev,       \* _load_everything_in_view: prev, the last extent read of the container
    contPasses, \* _load_everything_in_view: turns of the container loop begun
    last,       \* _scroll_window_to_bottom: last, the last extent read of the document
    winPasses,  \* _scroll_window_to_bottom: turns of its loop begun
    ppc,        \* scrape_profile: its position
    ppage,      \* scrape_profile: the profile page the session has loaded
    rec,        \* scrape_profile: the fields of the record extracted so far
    vpc,        \* visit_and_collect on a page that changes with its tabs: its position
    docs,       \* the document as it is once each tab label has been tried, by label
    vk,         \* the tab label of the loop (its place in TAB_LABELS)
    vset,       \* links
    vret,       \* the set returned
    cpc,        \* _largest_scrollable_container: its position
    els,        \* the elements the script selects, in document order
    container,  \* what _largest_scrollable_container returned
    kpc,        \* _click_texty_buttons: its position
    krounds,    \* _click_texty_buttons: rounds of its loop begun
    kels,       \* _click_texty_buttons: els of the last round
    kclicked,   \* the elements clicked in the last round (their places in els), each with the way
    hpc,        \* _fallback_extract_from_html: its position
    hrefValue,  \* the value of the href attribute in the markup
    hset,       \* what _fallback_extract_from_html returned
    program,    \* the Scholar script that runs
    argv,       \* sys.argv
    gpc,        \* the statement the script is at
    fed,        \* what became of each item of the loop so far, in order
    results,    \* results (cpy in scholar_author_indices.py): the items collected, in order
    outBuilt,   \* scholar_author_indices.py: out has been assigned
    stdout,     \* the documents printed to standard output
    gescaped    \* an exception has left main()

(***************************************************************************)
(* Strings                                                                 *)
(***************************************************************************)
LOWER == <<"a","b","c","d","e","f","g","h","i","j","k","l","m","n","o","p","q","r","s","t","u","v","w","x","y","z">>
UPPER == <<"A","B","C","D","E","F","G","H","I","J","K","L","M","N","O","P","Q","R","S","T","U","V","W","X","Y","Z">>
DIGITS == <<"0","1","2","3","4","5","6","7","8","9">>
\* The printable ASCII characters in code point order, from 32 (space); the grave
\* accent is written U+0060.
ASCII == <<" ","!","\"","#","$","%","&","'","(",")","*","+",",","-",".","/","0","1","2","3","4","5","6","7","8","9",":",";","<","=",">","?","@","A","B","C","D","E","F","G","H","I","J","K","L","M","N","O","P","Q","R","S","T","U","V","W","X","Y","Z","[","\\","]","^","_","U+0060","a","b","c","d","e","f","g","h","i","j","k","l","m","n","o","p","q","r","s","t","u","v","w","x","y","z","{","|","}","~">>
\* The code points U+0E00..U+0E7F (the Thai block) in order, each written U+XXXX.
THAI_BLOCK == <<"U+0E00","U+0E01","U+0E02","U+0E03","U+0E04","U+0E05","U+0E06","U+0E07","U+0E08","U+0E09","U+0E0A","U+0E0B","U+0E0C","U+0E0D","U+0E0E","U+0E0F","U+0E10","U+0E11","U+0E12","U+0E13","U+0E14","U+0E15","U+0E16","U+0E17","U+0E18","U+0E19","U+0E1A","U+0E1B","U+0E1C","U+0E1D","U+0E1E","U+0E1F","U+0E20","U+0E21","U+0E22","U+0E23","U+0E24","U+0E25","U+0E26","U+0E27","U+0E28","U+0E29","U+0E2A","U+0E2B","U+0E2C","U+0E2D","U+0E2E","U+0E2F","U+0E30","U+0E31","U+0E32","U+0E33","U+0E34","U+0E35","U+0E36","U+0E37","U+0E38","U+0E39","U+0E3A","U+0E3B","U+0E3C","U+0E3D","U+0E3E","U+0E3F","U+0E40","U+0E41","U+0E42","U+0E43","U+0E44","U+0E45","U+0E46","U+0E47","U+0E48","U+0E49","U+0E4A","U+0E4B","U+0E4C","U+0E4D","U+0E4E","U+0E4F","U+0E50","U+0E51","U+0E52","U+0E53","U+0E54","U+0E55","U+0E56","U+0E57","U+0E58","U+0E59","U+0E5A","U+0E5B","U+0E5C","U+0E5D","U+0E5E","U+0E5F","U+0E60","U+0E61","U+0E62","U+0E63","U+0E64","U+0E65","U+0E66","U+0E67","U+0E68","U+0E69","U+0E6A","U+0E6B","U+0E6C","U+0E6D","U+0E6E","U+0E6F","U+0E70","U+0E71","U+0E72","U+0E73","U+0E74","U+0E75","U+0E76","U+0E77","U+0E78","U+0E79","U+0E7A","U+0E7B","U+0E7C","U+0E7D","U+0E7E","U+0E7F">>

Range(s) == {s[i] : i \in 1..Len(s)}

IndexIn(s, c) == CHOOSE i \in 1..Len(s) : s[i] = c

\* ord(c), for the characters of the model: the printable ASCII characters, the four
\* control characters that are written with an escape, and the Thai block
Ord(c) ==
    CASE c \in Range(ASCII) -> 31 + IndexIn(ASCII, c)
      [] c = "\t" -> 9
      [] c = "\n" -> 10
      [] c = "\f" -> 12
      [] c = "\r" -> 13
      [] c \in Range(THAI_BLOCK) -> 3583 + IndexIn(THAI_BLOCK, c)

\* The range U+0E01-U+0E59 in the character class of ALLOWED_SEGMENT_RE: every
\* code point from the first to the last
THAI == {c \in Range(THAI_BLOCK) : Ord("U+0E01") <= Ord(c) /\ Ord(c) <= Ord("U+0E59")}

\* str.lower() of one character
LowerChar(c) == IF c \in Range(UPPER) THEN LOWER[IndexIn(UPPER, c)] ELSE c

\* str.lower()
Lower(s) == [i \in 1..Len(s) |-> LowerChar(s[i])]

\* s.startswith(p)
StartsWith(s, p) == Len(s) >= Len(p) /\ SubSeq(s, 1, Len(p)) = p

\* c in s
Contains(s, c) == \E i \in 1..Len(s) : s[i] = c

\* s.find(c, from), positions counted from 1; 0 when c is not found
Find(s, c, from) ==
    IF \E i \in from..Len(s) : s[i] = c
    THEN CHOOSE i \in from..Len(s) : s[i] = c /\ \A j \in from..(i - 1) : s[j] # c
    ELSE 0

\* s.rfind(c), positions counted from 1; 0 when c is not found
RFind(s, c) ==
    IF Contains(s, c)
    THEN CHOOSE i \in 1..Len(s) : s[i] = c /\ \A j \in (i + 1)..Len(s) : s[j] # c
    ELSE 0

\* s[from:], from counted from 1
From(s, from) == SubSeq(s, from, Len(s))

\* s.rstrip(chars)
RECURSIVE RStrip(_, _)
RStrip(s, chars) ==
    IF s # <<>> /\ s[Len(s)] \in chars THEN RStrip(SubSeq(s, 1, Len(s) - 1), chars) ELSE s

\* s.lstrip(chars)
RECURSIVE LStrip(_, _)
LStrip(s, chars) ==
    IF s # <<>> /\ s[1] \in chars THEN LStrip(Tail(s), chars) ELSE s

\* The whitespace str.strip() removes (the characters of it a model string can hold).
WHITESPACE == {" ", "\t", "\n", "\r", "\f"}

\* s.strip()
Strip(s) == RStrip(LStrip(s, WHITESPACE), WHITESPACE)

\* s.replace(c, "") for every c of chars
RemoveChars(s, chars) == SelectSeq(s, LAMBDA c : c \notin chars)

\* s.split(c)
RECURSIVE Split(_, _)
Split(s, c) ==
    LET i == Find(s, c, 1)
    IN  IF i = 0 THEN <<s>> ELSE <<SubSeq(s, 1, i - 1)>> \o Split(From(s, i + 1), c)

\* c.join(parts)
RECURSIVE Join(_, _)
Join(parts, c) ==
    IF parts = <<>> THEN <<>>
    ELSE IF Len(parts) = 1 THEN parts[1]
    ELSE parts[1] \o <<c>> \o Join(Tail(parts), c)

\* a < b in Python's order of strings (by code point, a proper prefix first)
RECURSIVE StrLess(_, _)
StrLess(a, b) ==
    IF b = <<>> THEN FALSE
    ELSE IF a = <<>> THEN TRUE
    ELSE IF a[1] # b[1] THEN Ord(a[1]) < Ord(b[1])
    ELSE StrLess(Tail(a), Tail(b))

\* sorted(set, reverse=True)
RECURSIVE sorted_reverse(_)
sorted_reverse(set) ==
    IF set = {} THEN <<>>
    ELSE LET m == CHOOSE x \in set : \A y \in set \ {x} : StrLess(y, x)
         IN  <<m>> \o sorted_reverse(set \ {m})

\* sorted(set)
RECURSIVE sorted(_)
sorted(set) ==
    IF set = {} THEN <<>>
    ELSE LET m == CHOOSE x \in set : \A y \in set \ {x} : StrLess(x, y)
         IN  <<m>> \o sorted(set \ {m})

(***************************************************************************)
(* urllib.parse, as the scrapers use it                                    *)
(***************************************************************************)
uses_params == {<<>>, <<"f","t","p">>, <<"h","d","l">>, <<"p","r","o","s","p","e","r","o">>, <<"h","t","t","p">>, <<"i","m","a","p">>, <<"h","t","t","p","s">>, <<"s","h","t","t","p">>, <<"r","t","s","p">>, <<"r","t","s","p","s">>, <<"r","t","s","p","u">>, <<"s","i","p">>, <<"s","i","p","s">>, <<"m","m","s">>, <<"s","f","t","p">>, <<"t","e","l">>}
uses_relative == {<<>>, <<"f","t","p">>, <<"h","t","t","p">>, <<"g","o","p","h","e","r">>, <<"n","n","t","p">>, <<"i","m","a","p">>, <<"w","a","i","s">>, <<"f","i","l","e">>, <<"h","t","t","p","s">>, <<"s","h","t","t","p">>, <<"m","m","s">>, <<"p","r","o","s","p","e","r","o">>, <<"r","t","s","p">>, <<"r","t","s","p","s">>, <<"r","t","s","p","u">>, <<"s","f","t","p">>, <<"s","v","n">>, <<"s","v","n","+","s","s","h">>, <<"w","s">>, <<"w","s","s">>}
uses_netloc == {<<>>, <<"f","t","p">>, <<"h","t","t","p">>, <<"g","o","p","h","e","r">>, <<"n","n","t","p">>, <<"t","e","l","n","e","t">>, <<"i","m","a","p">>, <<"w","a","i","s">>, <<"f","i","l","e">>, <<"m","m","s">>, <<"h","t","t","p","s">>, <<"s","h","t","t","p">>, <<"s","n","e","w","s">>, <<"p","r","o","s","p","e","r","o">>, <<"r","t","s","p">>, <<"r","t","s","p","s">>, <<"r","t","s","p","u">>, <<"r","s","y","n","c">>, <<"s","v","n">>, <<"s","v","n","+","s","s","h">>, <<"s","f","t","p">>, <<"n","f","s">>, <<"g","i","t">>, <<"g","i","t","+","s","s","h">>, <<"w","s">>, <<"w","s","s">>}
scheme_chars == Range(LOWER) \cup Range(UPPER) \cup Range(DIGITS) \cup {"+", "-", "."}
\* The characters urlsplit strips from the left of a URL, and those it removes anywhere.
C0_CONTROL_OR_SPACE == {" ", "\t", "\n", "\r", "\f"}
UNSAFE_URL_BYTES_TO_REMOVE == {"\t", "\r", "\n"}

\* The first position from `from` on of one of "/?#", or Len(s) + 1
NetlocEnd(s, from) ==
    IF \E i \in from..Len(s) : s[i] \in {"/", "?", "#"}
    THEN CHOOSE i \in from..Len(s) :
            s[i] \in {"/", "?", "#"} /\ \A j \in from..(i - 1) : s[j] \notin {"/", "?", "#"}
    ELSE Len(s) + 1

\* urlsplit: <<scheme, rest>> of a URL, the scheme lowered (scheme0 when the URL
\* does not begin with one)
SchemeOf(url, scheme0) ==
    LET i == Find(url, ":", 1)
    IN  IF /\ i > 1
           /\ url[1] \in Range(LOWER) \cup Range(UPPER)
           /\ \A k \in 1..(i - 1) : url[k] \in scheme_chars
        THEN <<Lower(SubSeq(url, 1, i - 1)), From(url, i + 1)>>
        ELSE <<scheme0, url>>

\* urlsplit: <<netloc, rest>> of what follows the scheme
NetlocOf(url) ==
    IF StartsWith(url, <<"/", "/">>)
    THEN LET delim == NetlocEnd(url, 3)
         IN  <<SubSeq(url, 3, delim - 1), From(url, delim)>>
    ELSE << <<>>, url >>

\* s.split(c, 1) as <<before, after>>, after empty when c is not in s
Partition(s, c) ==
    LET k == Find(s, c, 1)
    IN  IF k > 0 THEN <<SubSeq(s, 1, k - 1), From(s, k + 1)>> ELSE <<s, <<>>>>

\* s.partition(c) as <<before, sep, after>>
Partition3(s, c) ==
    LET k == Find(s, c, 1)
    IN  IF k > 0 THEN <<SubSeq(s, 1, k - 1), <<c>>, From(s, k + 1)>> ELSE <<s, <<>>, <<>>>>

\* int(s, 10) of a string of decimal digits
RECURSIVE DecimalValue(_)
DecimalValue(s) ==
    IF s = <<>> THEN 0
    ELSE 10 * DecimalValue(SubSeq(s, 1, Len(s) - 1)) + (IndexIn(DIGITS, s[Len(s)]) - 1)

\* ipaddress: _BaseV4._parse_octet(octet_str) returns (does not raise ValueError)
_parse_octet(octet_str) ==
    /\ octet_str # <<>>
    /\ \A i \in 1..Len(octet_str) : octet_str[i] \in Range(DIGITS)
    /\ Len(octet_str) <= 3
    /\ ~(octet_str # <<"0">> /\ octet_str[1] = "0")
    /\ DecimalValue(octet_str) <= 255

\* ipaddress: IPv4Address(address) returns (does not raise AddressValueError)
IPv4Address(address) ==
    /\ ~Contains(address, "/")
    /\ address # <<>>
    /\ LET octets == Split(address, ".")
       IN  Len(octets) = 4 /\ \A i \in 1..4 : _parse_octet(octets[i])

HEX_DIGITS == Range(DIGITS) \cup {"a","b","c","d","e","f","A","B","C","D","E","F"}
HEXTET_COUNT == 8

\* ipaddress: _BaseV6._parse_hextet(hextet_str) returns (int("", 16) raises too)
_parse_hextet(hextet_str) ==
    /\ \A i \in 1..Len(hextet_str) : hextet_str[i] \in HEX_DIGITS
    /\ Len(hextet_str) <= 4
    /\ hextet_str # <<>>

\* ipaddress: _BaseV6._ip_int_from_string, after the parts of an IPv4-style suffix
\* have been replaced, returns
HextetsValid(parts) ==
    LET n == Len(parts)
        skips == {i \in 2..(n - 1) : parts[i] = <<>>}
        skip_index == CHOOSE i \in skips : TRUE
        hi0 == skip_index - 1
        lo0 == n - skip_index
        parts_hi == IF parts[1] = <<>> THEN hi0 - 1 ELSE hi0
        parts_lo == IF parts[n] = <<>> THEN lo0 - 1 ELSE lo0
    IN  /\ n <= HEXTET_COUNT + 1
        /\ Cardinality(skips) <= 1
        /\ IF skips # {}
           THEN /\ parts[1] = <<>> => parts_hi = 0
                /\ parts[n] = <<>> => parts_lo = 0
                /\ HEXTET_COUNT - (parts_hi + parts_lo) >= 1
                /\ \A i \in 1..parts_hi : _parse_hextet(parts[i])
                /\ \A i \in (n - parts_lo + 1)..n : _parse_hextet(parts[i])
           ELSE /\ n = HEXTET_COUNT
                /\ \A i \in 1..n : _parse_hextet(parts[i])

\* ipaddress: _BaseV6._ip_int_from_string(ip_str) returns.  The two hextets that
\* stand for a valid IPv4-style suffix are written "0": they are valid whatever
\* the address is.
_ip_int_from_string(ip_str) ==
    /\ ip_str # <<>>
    /\ LET parts == Split(ip_str, ":")
           n == Len(parts)
       IN  /\ n >= 3
           /\ IF Contains(parts[n], ".")
              THEN /\ IPv4Address(parts[n])
                   /\ HextetsValid(SubSeq(parts, 1, n - 1) \o << <<"0">>, <<"0">> >>)
              ELSE HextetsValid(parts)

\* ipaddress: IPv6Address(address) returns; _split_scope_id takes the scope off
IPv6Address(address) ==
    /\ ~Contains(address, "/")
    /\ LET sc3 == Partition3(address, "%")
       IN  /\ sc3[2] # <<>> => (sc3[3] # <<>> /\ ~Contains(sc3[3], "%"))
           /\ _ip_int_from_string(sc3[1])

\* urllib.parse._check_bracketed_host(hostname) returns: an IPvFuture address
\* (\Av[a-fA-F0-9]+\..+\Z, where "." is no newline), or an address that
\* ipaddress.ip_address takes and that is no IPv4 address
_check_bracketed_host(hostname) ==
    IF StartsWith(hostname, <<"v">>)
    THEN \E k \in 3..(Len(hostname) - 1) :
            /\ \A i \in 2..(k - 1) : hostname[i] \in HEX_DIGITS
            /\ hostname[k] = "."
            /\ \A i \in (k + 1)..Len(hostname) : hostname[i] # "\n"
    ELSE ~IPv4Address(hostname) /\ IPv6Address(hostname)

\* urlsplit raises ValueError for the netloc: one bracket without the other, or
\* between the first "[" and the next "]" something that is no address
InvalidNetloc(netloc) ==
    \/ Contains(netloc, "[") # Contains(netloc, "]")
    \/ /\ Contains(netloc, "[") /\ Contains(netloc, "]")
       /\ ~_check_bracketed_host(Partition3(Partition3(netloc, "[")[3], "]")[1])

\* urlsplit: the fragment, then the query, are split off; invalid: it raises
\* ValueError (a host in brackets that is no address).  _checknetloc raises for no
\* character of the model: the NFKC form of a Thai character holds none of "/?#@:".
SplitResult(scheme, netloc, url) ==
    LET f == Partition(url, "#")
        q == Partition(f[1], "?")
    IN  [scheme |-> scheme, netloc |-> netloc, path |-> q[1], query |-> q[2],
         fragment |-> f[2], invalid |-> InvalidNetloc(netloc)]

\* urlsplit after the scheme
SplitAfterScheme(scheme, url) ==
    LET n == NetlocOf(url)
    IN  SplitResult(scheme, n[1], n[2])

\* urlsplit(url, scheme)
urlsplit(url0, scheme0) ==
    LET s == SchemeOf(RemoveChars(LStrip(url0, C0_CONTROL_OR_SPACE),
                                  UNSAFE_URL_BYTES_TO_REMOVE), scheme0)
    IN  SplitAfterScheme(s[1], s[2])

\* _splitparams(url): <<url, params>>
_splitparams(url) ==
    LET i == IF Contains(url, "/") THEN Find(url, ";", RFind(url, "/")) ELSE Find(url, ";", 1)
    IN  IF i = 0 THEN <<url, <<>>>> ELSE <<SubSeq(url, 1, i - 1), From(url, i + 1)>>

\* urlparse: the params are split off the path of a split URL
ParseResult(r) ==
    LET pp == IF r.scheme \in uses_params /\ Contains(r.path, ";")
              THEN _splitparams(r.path)
              ELSE <<r.path, <<>>>>
    IN  [scheme |-> r.scheme, netloc |-> r.netloc, path |-> pp[1], params |-> pp[2],
         query |-> r.query, fragment |-> r.fragment, invalid |-> r.invalid]

\* urlparse(url, scheme)
urlparse2(url, scheme0) == ParseResult(urlsplit(url, scheme0))

\* urlparse(url)
urlparse(url) == urlparse2(url, <<>>)

\* urlunsplit((scheme, netloc, url, query, fragment))
urlunsplit(scheme, netloc, url0, query, fragment) ==
    LET url1 == IF netloc # <<>>
                   \/ (scheme # <<>> /\ scheme \in uses_netloc /\ ~StartsWith(url0, <<"/", "/">>))
                THEN <<"/", "/">> \o netloc
                     \o (IF url0 # <<>> /\ url0[1] # "/" THEN <<"/">> \o url0 ELSE url0)
                ELSE url0
        url2 == IF scheme # <<>> THEN scheme \o <<":">> \o url1 ELSE url1
        url3 == IF query # <<>> THEN url2 \o <<"?">> \o query ELSE url2
    IN  IF fragment # <<>> THEN url3 \o <<"#">> \o fragment ELSE url3

\* urlunparse((scheme, netloc, url, params, query, fragment))
urlunparse(scheme, netloc, url, params, query, fragment) ==
    urlunsplit(scheme, netloc, IF params # <<>> THEN url \o <<";">> \o params ELSE url,
               query, fragment)

\* urljoin's loop over the segments: ".." pops, "." is skipped
RECURSIVE ResolveSegments(_, _)
ResolveSegments(segments, resolved) ==
    IF segments = <<>> THEN resolved
    ELSE IF Head(segments) = <<".", ".">>
         THEN ResolveSegments(Tail(segments),
                              IF resolved = <<>> THEN <<>>
                              ELSE SubSeq(resolved, 1, Len(resolved) - 1))
    ELSE IF Head(segments) = <<".">> THEN ResolveSegments(Tail(segments), resolved)
    ELSE ResolveSegments(Tail(segments), Append(resolved, Head(segments)))

\* segments[1:-1] = filter(None, segments[1:-1])
FilterMiddle(segments) ==
    IF Len(segments) <= 2 THEN segments
    ELSE <<segments[1]>>
         \o SelectSeq(SubSeq(segments, 2, Len(segments) - 1), LAMBDA s : s # <<>>)
         \o <<segments[Len(segments)]>>

\* A ValueError that urlsplit raised, in the place of the value of the call it left
ValueError == <<"ValueError">>

\* urljoin of the parsed base b and the parsed url r (no result when a parse raised)
JoinParsed(url, b, r) ==
    LET base_parts0 == Split(b.path, "/")
        base_parts == IF base_parts0[Len(base_parts0)] # <<>>
                      THEN SubSeq(base_parts0, 1, Len(base_parts0) - 1)
                      ELSE base_parts0
        segments == IF r.path # <<>> /\ r.path[1] = "/"
                    THEN Split(r.path, "/")
                    ELSE FilterMiddle(base_parts \o Split(r.path, "/"))
        resolved0 == ResolveSegments(segments, <<>>)
        resolved == IF segments[Len(segments)] \in {<<".">>, <<".", ".">>}
                    THEN Append(resolved0, <<>>)
                    ELSE resolved0
        joined == Join(resolved, "/")
    IN  IF b.invalid \/ r.invalid THEN ValueError
        ELSE IF r.scheme # b.scheme \/ r.scheme \notin uses_relative THEN url
        ELSE IF r.scheme \in uses_netloc /\ r.netloc # <<>>
             THEN urlunparse(r.scheme, r.netloc, r.path, r.params, r.query, r.fragment)
        ELSE LET netloc == IF r.scheme \in uses_netloc THEN b.netloc ELSE r.netloc
             IN  IF r.path = <<>> /\ r.params = <<>>
                 THEN urlunparse(r.scheme, netloc, b.path, b.params,
                                 IF r.query = <<>> THEN b.query ELSE r.query, r.fragment)
                 ELSE urlunparse(r.scheme, netloc,
                                 IF joined = <<>> THEN <<"/">> ELSE joined,
                                 r.params, r.query, r.fragment)

\* urljoin: the url is parsed with the scheme of the base as its default; the
\* ValueError of a parse leaves urljoin
JoinOnto(url, b) == JoinParsed(url, b, urlparse2(url, b.scheme))

\* urljoin(base, url)
urljoin(base, url) ==
    IF base = <<>> THEN url
    ELSE IF url = <<>> THEN base
    ELSE JoinOnto(url, urlparse2(base, <<>>))

(***************************************************************************)
(* URL helpers of the scrapers                                             *)
(***************************************************************************)
BASE == <<"h","t","t","p","s",":","/","/","c","o","m","p","u","t","i","n","g",".","k","k","u",".","a","c",".","t","h">>
LANG_PREFIXES == << <<"/","e","n">>, <<"/","t","h">> >>
\* The alternatives of STATIC_EXT
STATIC_EXTS == {<<"c","s","s">>, <<"j","s">>, <<"p","n","g">>, <<"j","p","g">>, <<"j","p","e","g">>, <<"g","i","f">>, <<"s","v","g">>, <<"w","e","b","p">>, <<"w","o","f","f">>, <<"w","o","f","f","2">>, <<"t","t","f">>, <<"i","c","o">>, <<"p","d","f">>}

\* STATIC_EXT.search(s) is not None: a dot, an extension (any case), then "?", "#" or
\* the end of the string ("$" also matches before a final newline).
STATIC_EXT_search(s) ==
    \E i \in 1..Len(s) : \E e \in STATIC_EXTS :
        /\ s[i] = "."
        /\ i + Len(e) <= Len(s)
        /\ Lower(SubSeq(s, i + 1, i + Len(e))) = e
        /\ LET k == i + Len(e) + 1
           IN  \/ k = Len(s) + 1
               \/ k <= Len(s) /\ s[k] \in {"?", "#"}
               \/ k = Len(s) /\ s[k] = "\n"

\* The character class of ALLOWED_SEGMENT_RE
AllowedChar(c) ==
    c \in Range(LOWER) \cup Range(UPPER) \cup Range(DIGITS) \cup {"_", ".", "-"} \cup THAI

\* ALLOWED_SEGMENT_RE.match(s) is not None ("$" also matches before a final newline)
ALLOWED_SEGMENT_RE_match(s) ==
    LET body == IF s # <<>> /\ s[Len(s)] = "\n" THEN SubSeq(s, 1, Len(s) - 1) ELSE s
    IN  body # <<>> /\ \A i \in 1..Len(body) : AllowedChar(body[i])

\* _to_abs_url(href); ValueError when urljoin raises it
_to_abs_url(href) ==
    IF href = <<>> THEN <<>>
    ELSE LET h == Strip(href)
         IN  IF StartsWith(h, <<"/">>) THEN urljoin(BASE, h) ELSE h

\* _norm_abs: f"{p.scheme}://{p.netloc}{p.path}".rstrip("/")
Rebuilt(p) == RStrip(p.scheme \o <<":", "/", "/">> \o p.netloc \o p.path, {"/"})

\* The url that _norm_abs parses
Absolute(url) == IF ~StartsWith(url, <<"h","t","t","p">>) THEN _to_abs_url(url) ELSE url

\* _norm_abs(url); ValueError when urljoin or urlparse raises it, and when the
\* argument is a call that raised it (_norm_abs(urljoin(BASE, v)))
NormParsed(p) == IF p.invalid THEN ValueError ELSE Rebuilt(p)

NormAbsolute(a) == IF a = ValueError THEN ValueError ELSE NormParsed(urlparse(a))

_norm_abs(url) ==
    IF url = <<>> THEN <<>>
    ELSE IF url = ValueError THEN ValueError
    ELSE NormAbsolute(Absolute(url))

\* _strip_lang_prefix of the en variant
RECURSIVE StripLangFrom(_, _)
StripLangFrom(path, k) ==
    IF k > Len(LANG_PREFIXES) THEN path
    ELSE IF path = LANG_PREFIXES[k] THEN <<"/">>
    ELSE IF StartsWith(path, LANG_PREFIXES[k] \o <<"/">>)
         THEN From(path, Len(LANG_PREFIXES[k]) + 1)
    ELSE StripLangFrom(path, k + 1)

_strip_lang_prefix(path) == StripLangFrom(path, 1)

\* [s for s in path.split("/") if s]
Segments(path) == SelectSeq(Split(path, "/"), LAMBDA s : s # <<>>)

\* A test that looks at the first segment only
FirstSegmentDotted(segs) ==
    Len(segs) >= 1 /\ Contains(segs[1], ".") /\ ALLOWED_SEGMENT_RE_match(segs[1])

\* The last test of _is_profile_abs_url on the segments
OneDottedSegment(segs) ==
    Len(segs) = 1 /\ Contains(segs[1], ".") /\ ALLOWED_SEGMENT_RE_match(segs[1])

\* _is_profile_abs_url of scrape_kku_people.py: its tests on the path
IsProfilePath_th(path) ==
    /\ path # <<>> /\ path # <<"/">>
    /\ ~(StartsWith(path, <<"/","e","n","/">>) \/ StartsWith(path, <<"/","t","h","/">>))
    /\ ~STATIC_EXT_search(path)
    /\ OneDottedSegment(Segments(path))

\* What a call of a function that returns a bool gives: "True", "False", or
\* "ValueError" when urlparse raises it
Outcome(p, accepted) ==
    IF p.invalid THEN "ValueError" ELSE IF accepted THEN "True" ELSE "False"

\* _is_profile_abs_url of scrape_kku_people.py
_is_profile_abs_url_th(abs_url) ==
    IF abs_url = <<>> \/ ~StartsWith(abs_url, BASE) THEN "False"
    ELSE Outcome(urlparse(abs_url), IsProfilePath_th(urlparse(abs_url).path))

\* _is_profile_abs_url of scrape_kku_people_en.py: its tests on the path
IsProfilePath_en(path) ==
    /\ path # <<>> /\ path # <<"/">>
    /\ ~STATIC_EXT_search(path)
    /\ OneDottedSegment(Segments(_strip_lang_prefix(path)))

\* _is_profile_abs_url of scrape_kku_people_en.py
_is_profile_abs_url_en(abs_url) ==
    IF abs_url = <<>> \/ ~StartsWith(abs_url, BASE) THEN "False"
    ELSE Outcome(urlparse(abs_url), IsProfilePath_en(urlparse(abs_url).path))

_is_profile_abs_url(v, abs_url) ==
    IF v = "th" THEN _is_profile_abs_url_th(abs_url) ELSE _is_profile_abs_url_en(abs_url)

(***************************************************************************)
(* The URL helpers run on bounded inputs                                   *)
(***************************************************************************)
Variants == {"th", "en"}

\* The pieces the rooted paths are made of, and how many a path has at most.
PathTokens == << <<"/">>, <<"/","e","n">>, <<"/","t","h">>, <<"a">>, <<".">>, <<".","j","s">>, <<"~">>, <<";">>,
                 <<"U+0E17">> >>
MaxPathTok == 4
\* The pieces the other strings are made of, and how many a string has at most.
RawTokens == << <<"h","t","t","p">>, <<":">>, <<"/">>, <<"a">>, <<";">>, <<"[">> >>
MaxRawTok == 3

RECURSIVE Concat(_, _)
Concat(tokens, f) ==
    IF f = <<>> THEN <<>> ELSE tokens[Head(f)] \o Concat(tokens, Tail(f))

Strings(tokens, n) ==
    {Concat(tokens, f) : f \in UNION {[1..k -> 1..Len(tokens)] : k \in 0..n}}

\* Rooted paths, as an href holds them
PathInputs == {p \in Strings(PathTokens, MaxPathTok) : StartsWith(p, <<"/">>)}
\* The same paths on the base origin
AbsInputs == {BASE \o p : p \in PathInputs}
RawInputs == Strings(RawTokens, MaxRawTok)

urlVars == <<upc, u, n1, n2, acc>>
runVars == <<prefer, attempts, session, quitCount, pc, seedIdx, page, vlinks, tabIdx, found,
             links, linkList, li, people, log, fileOut, stdoutOut, escaped>>
stabVars == <<spc, clickRounds, prev, contPasses, last, winPasses>>
profVars == <<ppc, ppage, rec>>
visVars == <<vpc, docs, vk, vset, vret>>
contVars == <<cpc, els, container>>
clickVars == <<kpc, krounds, kels, kclicked>>
htmlVars == <<hpc, hrefValue, hset>>
scholarVars == <<program, argv, gpc, fed, results, outBuilt, stdout, gescaped>>
otherVars == <<profVars, visVars, contVars, clickVars, htmlVars, scholarVars>>
vars == <<variant, urlVars, runVars, otherVars, stabVars, otherVars>>

\* A page with nothing on it
EmptyPage == [anchors |-> {}, to |-> {}, json |-> {}, nuxt |-> {}, scriptErr |-> FALSE]

\* No run of main()
RunIdle ==
    /\ prefer = "auto"
    /\ attempts = <<>>
    /\ session = "none"
    /\ quitCount = 0
    /\ pc = "idle"
    /\ seedIdx = 0
    /\ page = EmptyPage
    /\ vlinks = {}
    /\ tabIdx = 0
    /\ found = {}
    /\ links = {}
    /\ linkList = <<>>
    /\ li = 0
    /\ people = <<>>
    /\ log = <<>>
    /\ fileOut = <<>>
    /\ stdoutOut = <<>>
    /\ escaped = FALSE

\* No run of the URL helpers
StabIdle ==
    spc = "idle" /\ clickRounds = 0 /\ prev = -1 /\ contPasses = 0 /\ last = 0 /\ winPasses = 0

\* No run of scrape_profile on its own
ProfIdle == ppc = "idle" /\ ppage = <<>> /\ rec = <<>>

\* No run of visit_and_collect on its own
VisIdle == vpc = "idle" /\ docs = <<>> /\ vk = 0 /\ vset = {} /\ vret = {}

\* No run of _largest_scrollable_container on its own
ContIdle == cpc = "idle" /\ els = <<>> /\ container = <<>>

\* No run of _click_texty_buttons on its own
ClickIdle == kpc = "idle" /\ krounds = 0 /\ kels = <<>> /\ kclicked = <<>>

\* No run of _fallback_extract_from_html on its own
HtmlIdle == hpc = "idle" /\ hrefValue = <<>> /\ hset = {}

\* No run of a Scholar script
ScholarIdle ==
    /\ program = "none" /\ argv = <<>> /\ gpc = "idle" /\ fed = <<>> /\ results = <<>>
    /\ outBuilt = FALSE /\ stdout = <<>> /\ gescaped = FALSE

OtherIdle == ProfIdle /\ VisIdle /\ ContIdle /\ ClickIdle /\ HtmlIdle /\ ScholarIdle

UrlIdle ==
    /\ upc = "idle"
    /\ u = <<>>
    /\ n1 = <<>>
    /\ n2 = <<>>
    /\ acc = FALSE

InitUrl ==
    /\ u \in PathInputs \cup AbsInputs \cup RawInputs
    /\ upc = "input"
    /\ variant = "none"
    /\ n1 = <<>>
    /\ n2 = <<>>
    /\ acc = FALSE
    /\ RunIdle
    /\ StabIdle
    /\ OtherIdle

\* Where a call goes on: nowhere when it raised
AfterCall(result, next) == IF result = ValueError THEN "raised" ELSE next

\* n = _norm_abs(u)
Normalize ==
    /\ upc = "input"
    /\ n1' = _norm_abs(u)
    /\ upc' = AfterCall(_norm_abs(u), "normed")
    /\ UNCHANGED <<variant, u, n2, acc, runVars, stabVars, otherVars>>

\* _norm_abs(n)
NormalizeAgain ==
    /\ upc = "normed"
    /\ n2' = _norm_abs(n1)
    /\ upc' = AfterCall(_norm_abs(n1), "renormed")
    /\ UNCHANGED <<variant, u, n1, acc, runVars, stabVars, otherVars>>

\* _is_profile_abs_url(u) of one of the two scrapers
Classify ==
    /\ upc = "input"
    /\ \E v \in Variants :
        /\ variant' = v
        /\ acc' = (_is_profile_abs_url(v, u) = "True")
        /\ upc' = IF _is_profile_abs_url(v, u) = "ValueError" THEN "raised" ELSE "classified"
    /\ UNCHANGED <<u, n1, n2, runVars, stabVars, otherVars>>

NextUrl == Normalize \/ NormalizeAgain \/ Classify

SpecUrl == InitUrl /\ [][NextUrl]_vars


(***************************************************************************)
(* Pages and the three discovery strategies                                *)
(*                                                                         *)
(* A listing page is what the strategies can see of it: the href values of *)
(* its anchors (in the DOM and in the serialized markup), the values of    *)
(* its other routing attributes ([to], onclick), the values of the         *)
(* "path" / "to" / "link" keys in its markup, the string values of the     *)
(* dictionaries of window.__NUXT__, and whether evaluating a script on it  *)
(* raises.  A page stays as it is while it is visited.                     *)
(***************************************************************************)
H_ab == <<"/","a",".","b">>
H_cd == <<"/","c",".","d">>
H_png == <<"/","l","o","g","o",".","p","n","g">>
H_abx == <<"/","a",".","b",";","x","/">>
H_en_ab == <<"/","e","n","/","a",".","b">>
H_people == <<"/","p","e","o","p","l","e">>
H_other == <<"/","/","x",".","y">>
\* A value with a host that urlsplit does not take
H_bracket == <<"/","/","[">>
\* A value with an apostrophe in it
H_quote == <<"/","c",".","d","'","x">>

\* Two profile links and a static asset, all of them anchors
ListingPage == [anchors |-> {H_ab, H_cd, H_png}, to |-> {}, json |-> {}, nuxt |-> {},
                scriptErr |-> FALSE]
Pages == {
    EmptyPage,
    ListingPage,
    [anchors |-> {H_ab, H_abx}, to |-> {}, json |-> {}, nuxt |-> {}, scriptErr |-> FALSE],
    [anchors |-> {H_en_ab, H_people}, to |-> {H_cd}, json |-> {}, nuxt |-> {},
     scriptErr |-> FALSE],
    [anchors |-> {}, to |-> {}, json |-> {H_cd}, nuxt |-> {H_ab, H_other},
     scriptErr |-> FALSE],
    [anchors |-> {H_ab}, to |-> {}, json |-> {H_cd}, nuxt |-> {H_abx}, scriptErr |-> TRUE],
    [anchors |-> {H_ab}, to |-> {}, json |-> {}, nuxt |-> {H_bracket}, scriptErr |-> FALSE],
    [anchors |-> {H_quote}, to |-> {}, json |-> {}, nuxt |-> {}, scriptErr |-> FALSE] }

TAB_LABELS == <<"U+0E17U+0E31U+0E49U+0E07U+0E2BU+0E21U+0E14", "All",
                "U+0E1CU+0E39U+0E49U+0E1AU+0E23U+0E34U+0E2BU+0E32U+0E23",
                "U+0E2AU+0E32U+0E22U+0E27U+0E34U+0E0AU+0E32U+0E01U+0E32U+0E23",
                "U+0E2AU+0E32U+0E22U+0E2AU+0E19U+0E31U+0E1AU+0E2AU+0E19U+0E38U+0E19">>

QUOTES == {"\"", "'"}

\* The script of _collect_candidates_via_js: the attribute values that start with "/"
JsRels(pg) == {h \in pg.anchors \cup pg.to : StartsWith(h, <<"/">>)}

\* A set that a comprehension or a loop builds: when a call for one of its elements
\* raised ValueError, there is no set and the exception goes on
Raising(set) == IF ValueError \in set THEN {ValueError} ELSE set

\* The call that was to give the set raised
Raised(set) == ValueError \in set

\* _collect_candidates_via_js(driver): a script that raises counts as no result
_collect_candidates_via_js(pg) ==
    Raising({_norm_abs(_to_abs_url(r)) : r \in (IF pg.scriptErr THEN {} ELSE JsRels(pg))})

\* The least number of a set of numbers that is not empty
Least(set) == CHOOSE k \in set : \A m \in set : k <= m

\* The first place of s from j on with a character of set, Len(s) + 1 when there is none
Until(s, j, set) ==
    LET hits == {k \in j..Len(s) : s[k] \in set}
    IN  IF hits = {} THEN Len(s) + 1 ELSE Least(hits)

\* The first place of s from j on with a character that is not of set, Len(s) + 1 when
\* there is none
Span(s, j, set) ==
    LET hits == {k \in j..Len(s) : s[k] \notin set}
    IN  IF hits = {} THEN Len(s) + 1 ELSE Least(hits)

\* s has sub at place i
At(s, i, sub) == i + Len(sub) - 1 <= Len(s) /\ SubSeq(s, i, i + Len(sub) - 1) = sub

\* The run of the href pattern that follows href=, a quote and "/" (the "/" at place
\* slash) ends before the closing quote at place r: <<slash, r - 1>>, the span of group 1
HrefClosed(s, slash, first, r) ==
    IF r <= Len(s) /\ s[r] \in QUOTES /\ r - first >= 1 /\ r - first <= 200
    THEN <<slash, r - 1>> ELSE <<>>

\* The href pattern of _fallback_extract_from_html matched at place i of html: the span of
\* its group 1, <<>> when it does not match there.
\* en: href=["\'](/[^"\']{1,200})["\'];  th: href=["\'](/[^"\']]{1,200})["\'], which is
\* "/", one character that is no quote, then 1 to 200 times "]".  A run that is greedy and
\* must be followed by a quote ends at the first character it cannot take.
HrefGroup(v, html, i) ==
    IF ~(At(html, i, <<"h","r","e","f","=">>) /\ i + 6 <= Len(html)
         /\ html[i + 5] \in QUOTES /\ html[i + 6] = "/")
    THEN <<>>
    ELSE IF v = "en"
    THEN HrefClosed(html, i + 6, i + 7, Until(html, i + 7, QUOTES))
    ELSE IF i + 7 <= Len(html) /\ html[i + 7] \notin QUOTES
    THEN HrefClosed(html, i + 6, i + 8, Span(html, i + 8, {"]"}))
    ELSE <<>>

\* The value of the pattern "(?:path|to|link)"\s*:\s*"(/[^"\\]{1,200})" whose opening
\* quote is at place q, the colon having been looked for at place colon
JsonValue(html, colon, q) ==
    IF colon <= Len(html) /\ html[colon] = ":" /\ q + 1 <= Len(html)
       /\ html[q] = "\"" /\ html[q + 1] = "/"
    THEN LET r == Until(html, q + 2, {"\"", "\\"})
         IN  IF r <= Len(html) /\ html[r] = "\"" /\ r - (q + 2) >= 1 /\ r - (q + 2) <= 200
             THEN <<q + 1, r - 1>> ELSE <<>>
    ELSE <<>>

\* The same after the key that ends before place j
JsonAfterKey(html, j) ==
    IF j <= Len(html) /\ html[j] = "\""
    THEN JsonValue(html, Span(html, j + 1, WHITESPACE),
                   Span(html, Span(html, j + 1, WHITESPACE) + 1, WHITESPACE))
    ELSE <<>>

\* The pattern "(?:path|to|link)"\s*:\s*"(/[^"\\]{1,200})" matched at place i of html:
\* the span of its group 1, <<>> when it does not match there
JsonGroup(html, i) ==
    IF At(html, i, <<"\"","p","a","t","h">>) THEN JsonAfterKey(html, i + 5)
    ELSE IF At(html, i, <<"\"","t","o">>) THEN JsonAfterKey(html, i + 3)
    ELSE IF At(html, i, <<"\"","l","i","n","k">>) THEN JsonAfterKey(html, i + 5)
    ELSE <<>>

\* re.finditer from place i on, g the span of group 1 of the first match from there: the
\* matches do not overlap, the search goes on after the closing quote
RECURSIVE HrefFinditer(_, _, _)
HrefStep(v, html, g) == {SubSeq(html, g[1], g[2])} \cup HrefFinditer(v, html, g[2] + 2)

\* The places of html from i on where the href pattern matches
HrefPlaces(v, html, i) == {k \in i..Len(html) : HrefGroup(v, html, k) # <<>>}

\* {m.group(1) for m in re.finditer(<the href pattern>, html)}, from place i on
HrefFinditer(v, html, i) ==
    IF HrefPlaces(v, html, i) = {} THEN {}
    ELSE HrefStep(v, html, HrefGroup(v, html, Least(HrefPlaces(v, html, i))))

RECURSIVE JsonFinditer(_, _)
JsonStep(html, g) == {SubSeq(html, g[1], g[2])} \cup JsonFinditer(html, g[2] + 2)

\* The places of html from i on where the path/to/link pattern matches
JsonPlaces(html, i) == {k \in i..Len(html) : JsonGroup(html, k) # <<>>}

\* {m.group(1) for m in re.finditer(<the path/to/link pattern>, html)}, from place i on
JsonFinditer(html, i) ==
    IF JsonPlaces(html, i) = {} THEN {}
    ELSE JsonStep(html, JsonGroup(html, Least(JsonPlaces(html, i))))

\* The serialized markup of the page, element by element: an attribute value and the
\* value of a key stand in it as they are, between double quotes
AnchorMarkup(h) == <<"<","a"," ","h","r","e","f","=","\"">> \o h \o <<"\"",">","<","/","a",">">>
ToMarkup(h) == <<"<","a"," ","t","o","=","\"">> \o h \o <<"\"",">","<","/","a",">">>
JsonMarkup(h) == <<"{","\"","p","a","t","h","\"",":","\"">> \o h \o <<"\"","}">>
page_source(pg) ==
    {AnchorMarkup(h) : h \in pg.anchors} \cup {ToMarkup(h) : h \in pg.to}
    \cup {JsonMarkup(h) : h \in pg.json}

\* _fallback_extract_from_html(html)
_fallback_extract_from_html(v, pg) ==
    Raising({_norm_abs(urljoin(BASE, h)) :
                h \in UNION {HrefFinditer(v, e, 1) \cup JsonFinditer(e, 1) : e \in page_source(pg)}})

\* _extract_from_nuxt(driver): a script that raises counts as no state
_extract_from_nuxt(pg) ==
    Raising({_norm_abs(urljoin(BASE, h)) :
                h \in {x \in (IF pg.scriptErr THEN {} ELSE pg.nuxt) : StartsWith(x, <<"/">>)}})

\* One strategy's candidates
Strategy(name, v, pg) ==
    IF name = "js" THEN _collect_candidates_via_js(pg)
    ELSE IF name = "html" THEN _fallback_extract_from_html(v, pg)
    ELSE _extract_from_nuxt(pg)

\* An assignment in the place of the union
Overwrite(into, candidates) == candidates

\* links |= candidates (not reached when the call for the candidates raised)
Merge(into, candidates) == Raising(into \cup candidates)

\* links = {u for u in links if _is_profile_abs_url(u)}
ProfileLinksOf(v, candidates) ==
    IF Raised(candidates) \/ \E c \in candidates : _is_profile_abs_url(v, c) = "ValueError"
    THEN {ValueError}
    ELSE {c \in candidates : _is_profile_abs_url(v, c) = "True"}

(***************************************************************************)
(* main(): one run of a scraper                                            *)
(***************************************************************************)
Prefs == {"auto", "chrome", "edge"}

\* A make_driver that goes on to Edge after every Chrome failure, pinned or not
make_driver_always_falls_back(pref, chromeOk, edgeOk) ==
    LET chrome == [backend |-> "chrome", ok |-> chromeOk]
        edge == [backend |-> "edge", ok |-> edgeOk]
    IN  IF pref \in {"chrome", "auto"} /\ chromeOk
        THEN [attempts |-> <<chrome>>, result |-> "chrome"]
        ELSE [attempts |-> (IF pref \in {"chrome", "auto"} THEN <<chrome, edge>> ELSE <<edge>>),
              result |-> IF edgeOk THEN "edge" ELSE "raise"]

\* make_driver(): the backends it tries to start, in order, and what it returns
\* ("raise": the start failure is raised to the caller).
make_driver(pref, chromeOk, edgeOk) ==
    LET chrome == [backend |-> "chrome", ok |-> chromeOk]
        edge == [backend |-> "edge", ok |-> edgeOk]
        ViaEdge(before) == [attempts |-> Append(before, edge),
                            result |-> IF edgeOk THEN "edge" ELSE "raise"]
    IN  IF pref \in {"chrome", "auto"}
        THEN IF chromeOk THEN [attempts |-> <<chrome>>, result |-> "chrome"]
             ELSE IF pref = "chrome" THEN [attempts |-> <<chrome>>, result |-> "raise"]
             ELSE ViaEdge(<<chrome>>)
        ELSE ViaEdge(<<>>)

\* The listing paths a run visits, in order
SeedPaths(v) ==
    IF v = "th" THEN << H_people >>
    ELSE << H_people, <<"/","e","n">> \o H_people, <<"/","t","h">> \o H_people >>

\* The URL given to visit_and_collect
SeedUrl == urljoin(BASE, SeedPaths(variant)[seedIdx])

\* A try block without its finally clause: an exception leaves main() at once
RaiseLeavesMain == "exited"

\* Where an exception raised in the try block of main() takes the run: to the finally
\* clause.
RaiseTarget == "finally"

\* The record scrape_profile returns for url (its profile_url; the other seven fields
\* are texts of the page)
scrape_profile(url) == [profile_url |-> _norm_abs(url)]

\* A loop that a failing profile page ends
BreakOnFailure(i, outcome) == IF outcome = "ok" THEN i + 1 ELSE Len(linkList) + 1

\* The place in links the loop of main() goes to after the profile page at place i
AfterProfile(i, outcome) == i + 1

InitRun ==
    /\ variant \in Variants
    /\ prefer \in Prefs
    /\ attempts = <<>>
    /\ session = "none"
    /\ quitCount = 0
    /\ pc = "start"
    /\ seedIdx = 0
    /\ page = EmptyPage
    /\ vlinks = {}
    /\ tabIdx = 0
    /\ found = {}
    /\ links = {}
    /\ linkList = <<>>
    /\ li = 0
    /\ people = <<>>
    /\ log = <<>>
    /\ fileOut = <<>>
    /\ stdoutOut = <<>>
    /\ escaped = FALSE
    /\ UrlIdle
    /\ StabIdle
    /\ OtherIdle

\* driver = make_driver()
MakeDriver ==
    /\ pc = "start"
    /\ \E chromeOk, edgeOk \in BOOLEAN :
        LET r == make_driver(prefer, chromeOk, edgeOk)
        IN  /\ attempts' = r.attempts
            /\ IF r.result = "raise"
               THEN /\ pc' = "exited"
                    /\ escaped' = TRUE
                    /\ UNCHANGED <<session, seedIdx>>
               ELSE /\ pc' = "v_get"
                    /\ session' = "open"
                    /\ seedIdx' = 1
                    /\ UNCHANGED escaped
    /\ UNCHANGED <<variant, urlVars, stabVars, otherVars, prefer, quitCount, page, vlinks, tabIdx, found, links,
                   linkList, li, people, log, fileOut, stdoutOut>>

\* The next listing path, or the end of link discovery
NextSeed ==
    IF seedIdx < Len(SeedPaths(variant))
    THEN seedIdx' = seedIdx + 1 /\ pc' = "v_get"
    ELSE seedIdx' = seedIdx /\ pc' = "sort"

\* An exception leaves visit_and_collect: main() of the en scraper catches it and goes
\* on with the next listing path; get_profile_links of the th scraper does not, and it
\* leaves the try block of main().  The locals of visit_and_collect are gone.
VisitFails(outcome) ==
    /\ log' = Append(log, [kind |-> "listing", url |-> SeedUrl, outcome |-> outcome,
                            yielded |-> FALSE])
    /\ vlinks' = {}
    /\ tabIdx' = 0
    /\ IF variant = "en"
       THEN NextSeed /\ UNCHANGED escaped
       ELSE pc' = RaiseTarget /\ escaped' = TRUE /\ UNCHANGED seedIdx

\* visit_and_collect: links = set(); driver.get(url)
VGet ==
    /\ pc = "v_get"
    /\ \/ \E pg \in Pages :
            /\ page' = pg
            /\ pc' = "v_wait"
            /\ UNCHANGED <<vlinks, tabIdx, seedIdx, log, escaped>>
       \/ VisitFails("error") /\ page' = EmptyPage
    /\ UNCHANGED <<variant, urlVars, stabVars, otherVars, prefer, attempts, session, quitCount, found, links,
                   linkList, li, people, fileOut, stdoutOut>>

\* visit_and_collect: wait_ready(driver), which raises when the page is not ready in time
VWait ==
    /\ pc = "v_wait"
    /\ \/ pc' = "v_tabs" /\ tabIdx' = 1 /\ UNCHANGED <<vlinks, seedIdx, log, escaped>>
       \/ VisitFails("timeout")
    /\ UNCHANGED <<variant, urlVars, stabVars, otherVars, prefer, attempts, session, quitCount, page, found,
                   links, linkList, li, people, fileOut, stdoutOut>>

\* visit_and_collect, once per tab label: _click_tab, _load_everything_in_view (either
\* may raise), links |= _collect_candidates_via_js(driver) (a ValueError of the
\* collector leaves visit_and_collect like the other exceptions)
VTab ==
    /\ pc = "v_tabs"
    /\ \/ /\ ~Raised(Strategy("js", variant, page))
          /\ vlinks' = Merge(vlinks, Strategy("js", variant, page))
          /\ IF tabIdx < Len(TAB_LABELS)
             THEN tabIdx' = tabIdx + 1 /\ pc' = "v_tabs"
             ELSE tabIdx' = tabIdx /\ pc' = "v_final"
          /\ UNCHANGED <<seedIdx, log, escaped>>
       \/ VisitFails("error")
    /\ UNCHANGED <<variant, urlVars, stabVars, otherVars, prefer, attempts, session, quitCount, page, found, links,
                   linkList, li, people, fileOut, stdoutOut>>

\* visit_and_collect after the tabs: _load_everything_in_view (may raise),
\* links |= _collect_candidates_via_js(driver)
VFinal ==
    /\ pc = "v_final"
    /\ \/ /\ ~Raised(Strategy("js", variant, page))
          /\ vlinks' = Merge(vlinks, Strategy("js", variant, page))
          /\ pc' = "v_html"
          /\ UNCHANGED <<tabIdx, seedIdx, log, escaped>>
       \/ VisitFails("error")
    /\ UNCHANGED <<variant, urlVars, stabVars, otherVars, prefer, attempts, session, quitCount, page, found,
                   links, linkList, li, people, fileOut, stdoutOut>>

\* visit_and_collect: html = driver.page_source (may raise),
\* links |= _fallback_extract_from_html(html)
VHtml ==
    /\ pc = "v_html"
    /\ \/ /\ ~Raised(Strategy("html", variant, page))
          /\ vlinks' = Merge(vlinks, Strategy("html", variant, page))
          /\ pc' = "v_nuxt"
          /\ UNCHANGED <<tabIdx, seedIdx, log, escaped>>
       \/ VisitFails("error")
    /\ UNCHANGED <<variant, urlVars, stabVars, otherVars, prefer, attempts, session, quitCount, page, found,
                   links, linkList, li, people, fileOut, stdoutOut>>

\* visit_and_collect: links |= _extract_from_nuxt(driver), which raises the ValueError
\* of urljoin or urlparse
VNuxt ==
    /\ pc = "v_nuxt"
    /\ IF Raised(Strategy("nuxt", variant, page))
       THEN VisitFails("error")
       ELSE /\ vlinks' = Merge(vlinks, Strategy("nuxt", variant, page))
            /\ pc' = "v_filter"
            /\ UNCHANGED <<tabIdx, seedIdx, log, escaped>>
    /\ UNCHANGED <<variant, urlVars, stabVars, otherVars, prefer, attempts, session, quitCount, page, found,
                   links, linkList, li, people, fileOut, stdoutOut>>

\* visit_and_collect: the filter by _is_profile_abs_url, and the return (the locals
\* are gone)
VReturn ==
    /\ pc = "v_filter"
    /\ IF Raised(ProfileLinksOf(variant, vlinks))
       THEN VisitFails("error") /\ UNCHANGED found
       ELSE /\ found' = ProfileLinksOf(variant, vlinks)
            /\ log' = Append(log, [kind |-> "listing", url |-> SeedUrl, outcome |-> "ok",
                                    yielded |-> TRUE])
            /\ vlinks' = {}
            /\ tabIdx' = 0
            /\ pc' = "v_returned"
            /\ UNCHANGED <<seedIdx, escaped>>
    /\ UNCHANGED <<variant, urlVars, stabVars, otherVars, prefer, attempts, session, quitCount, page, links,
                   linkList, li, people, fileOut, stdoutOut>>

\* en: links |= visit_and_collect(...); th: all_links = visit_and_collect(...)
Collect ==
    /\ pc = "v_returned"
    /\ links' = IF variant = "th" THEN found ELSE Merge(links, found)
    /\ found' = {}
    /\ NextSeed
    /\ UNCHANGED <<variant, urlVars, stabVars, otherVars, prefer, attempts, session, quitCount, page, vlinks, tabIdx,
                   linkList, li, people, log, fileOut, stdoutOut, escaped>>

\* links = sorted(links) (th: return sorted(all_links)); people = []
Sort ==
    /\ pc = "sort"
    /\ linkList' = sorted(links)
    /\ li' = 1
    /\ people' = <<>>
    /\ pc' = "extract"
    /\ UNCHANGED <<variant, urlVars, stabVars, otherVars, prefer, attempts, session, quitCount, seedIdx, page, vlinks,
                   tabIdx, found, links, log, fileOut, stdoutOut, escaped>>

\* What can become of one scrape_profile(driver, u): it returns the record, or it
\* raises: in wait_ready (the page is not ready in time), or in another call.
ProfileOutcomes == {"ok", "timeout", "error"}

\* What becomes of scrape_profile(driver, url) when its page does outcome: the
\* ValueError of its _norm_abs(url) is one more error
ProfileResult(outcome, url) ==
    IF outcome = "ok" /\ _norm_abs(url) = ValueError THEN "error" ELSE outcome

\* One turn of the loop over links: try: people.append(scrape_profile(driver, u))
\* except Exception: pass.  The session leaves the listing page.
ScrapeProfile ==
    /\ pc = "extract"
    /\ li <= Len(linkList)
    /\ \E outcome \in ProfileOutcomes :
        /\ people' = IF ProfileResult(outcome, linkList[li]) = "ok"
                     THEN Append(people, scrape_profile(linkList[li]))
                     ELSE people
        /\ log' = Append(log, [kind |-> "profile", url |-> linkList[li],
                                outcome |-> ProfileResult(outcome, linkList[li]),
                                yielded |-> (ProfileResult(outcome, linkList[li]) = "ok")])
        /\ li' = AfterProfile(li, ProfileResult(outcome, linkList[li]))
    /\ page' = EmptyPage
    /\ UNCHANGED <<variant, urlVars, stabVars, otherVars, prefer, attempts, session, quitCount, pc, seedIdx, vlinks,
                   tabIdx, found, links, linkList, fileOut, stdoutOut, escaped>>

\* After the loop: out_json = json.dumps(people), and the write of kku_people.json,
\* which may raise
WriteFile ==
    /\ pc = "extract"
    /\ li > Len(linkList)
    /\ \/ fileOut' = Append(fileOut, people) /\ pc' = "print" /\ UNCHANGED escaped
       \/ pc' = RaiseTarget /\ escaped' = TRUE /\ UNCHANGED fileOut
    /\ UNCHANGED <<variant, urlVars, stabVars, otherVars, prefer, attempts, session, quitCount, seedIdx, page, vlinks,
                   tabIdx, found, links, linkList, li, people, log, stdoutOut>>

\* try: print(out_json) except UnicodeEncodeError: pass; another error of the print
\* is raised
PrintJson ==
    /\ pc = "print"
    /\ \/ stdoutOut' = Append(stdoutOut, people) /\ pc' = "finally" /\ UNCHANGED escaped
       \/ pc' = "finally" /\ UNCHANGED <<stdoutOut, escaped>>
       \/ pc' = RaiseTarget /\ escaped' = TRUE /\ UNCHANGED stdoutOut
    /\ UNCHANGED <<variant, urlVars, stabVars, otherVars, prefer, attempts, session, quitCount, seedIdx, page, vlinks,
                   tabIdx, found, links, linkList, li, people, log, fileOut>>

\* finally: driver.quit(), which may itself raise
Quit ==
    /\ pc = "finally"
    /\ quitCount' = quitCount + 1
    /\ session' = "closed"
    /\ \E ok \in BOOLEAN : escaped' = (escaped \/ ~ok)
    /\ pc' = "exited"
    /\ UNCHANGED <<variant, urlVars, stabVars, otherVars, prefer, attempts, seedIdx, page, vlinks, tabIdx, found,
                   links, linkList, li, people, log, fileOut, stdoutOut>>

Next ==
    \/ MakeDriver
    \/ VGet \/ VWait \/ VTab \/ VFinal \/ VHtml \/ VNuxt \/ VReturn \/ Collect
    \/ Sort \/ ScrapeProfile \/ WriteFile \/ PrintJson \/ Quit

Spec == InitRun /\ [][Next]_vars

(***************************************************************************)
(* _load_everything_in_view(driver): one invocation on a page              *)
(*                                                                         *)
(* The page decides what each call gives: whether a round of               *)
(* _click_texty_buttons clicked an element, whether there is a scrollable  *)
(* container, what extent a read returns (the same as before, or another), *)
(* and whether the evaluation of a script raises.                          *)
(***************************************************************************)
\* max_round=80 in the call of _click_texty_buttons
max_round == 80
\* range(40): the turns of the container loop
container_passes == 40
\* max_pass=20 in the call of _scroll_window_to_bottom
max_pass == 20

InitStab ==
    /\ variant \in Variants
    /\ spc = "click"
    /\ clickRounds = 0
    /\ prev = -1
    /\ contPasses = 0
    /\ last = 0
    /\ winPasses = 0
    /\ UrlIdle
    /\ RunIdle
    /\ OtherIdle

\* for _ in range(limit): the loop is over after n turns
Exhausted(n, limit) == n >= limit

\* One round of _click_texty_buttons: an element was clicked, or none was (no element
\* found, none displayed and enabled, or every attempt raised) and the loop ends
ClickRound ==
    /\ spc = "click"
    /\ ~Exhausted(clickRounds, max_round)
    /\ clickRounds' = clickRounds + 1
    /\ \E clicked \in BOOLEAN :
        spc' = IF clicked THEN "click" ELSE "container"
    /\ UNCHANGED <<variant, urlVars, runVars, otherVars, prev, contPasses, last, winPasses>>

\* The rounds are used up; sc = _largest_scrollable_container(driver), None when there
\* is no such element or the script raised; prev = -1
FindContainer ==
    /\ spc \in {"click", "container"}
    /\ spc = "click" => Exhausted(clickRounds, max_round)
    /\ \E sc \in BOOLEAN :
        spc' = IF sc THEN "cscroll" ELSE "window"
    /\ prev' = -1
    /\ UNCHANGED <<variant, urlVars, runVars, otherVars, clickRounds, contPasses, last, winPasses>>

\* One turn of the container loop: the scroll (an exception is passed over), the read
\* of the extent (an exception gives cur = prev), break when cur == prev
ContainerPass ==
    /\ spc = "cscroll"
    /\ ~Exhausted(contPasses, container_passes)
    /\ contPasses' = contPasses + 1
    /\ \E readOk, grew \in BOOLEAN :
        LET cur == IF ~readOk THEN prev
                   ELSE IF prev < 0 THEN 0
                   ELSE IF grew THEN prev + 1 ELSE prev
        IN  IF cur = prev
            THEN spc' = "window" /\ UNCHANGED prev
            ELSE spc' = "cscroll" /\ prev' = cur
    /\ UNCHANGED <<variant, urlVars, runVars, otherVars, clickRounds, last, winPasses>>

\* The container loop has used its turns: _scroll_window_to_bottom is called
ContainerDone ==
    /\ spc = "cscroll"
    /\ Exhausted(contPasses, container_passes)
    /\ spc' = "window"
    /\ UNCHANGED <<variant, urlVars, runVars, otherVars, clickRounds, prev, contPasses, last, winPasses>>

\* One turn of the loop of _scroll_window_to_bottom: the scroll and the read of the
\* extent, either of which may raise, and then the exception leaves
\* _load_everything_in_view; break when h == last
WindowPass ==
    /\ spc = "window"
    /\ ~Exhausted(winPasses, max_pass)
    /\ winPasses' = winPasses + 1
    /\ \/ spc' = "raised" /\ UNCHANGED last
       \/ \E grew \in BOOLEAN :
            LET h == IF grew THEN last + 1 ELSE last
            IN  IF h = last
                THEN spc' = "returned" /\ UNCHANGED last
                ELSE spc' = "window" /\ last' = h
    /\ UNCHANGED <<variant, urlVars, runVars, otherVars, clickRounds, prev, contPasses>>

\* The loop has used its turns: _scroll_window_to_bottom and _load_everything_in_view
\* return
WindowDone ==
    /\ spc = "window"
    /\ Exhausted(winPasses, max_pass)
    /\ spc' = "returned"
    /\ UNCHANGED <<variant, urlVars, runVars, otherVars, clickRounds, prev, contPasses, last, winPasses>>

NextStab ==
    \/ ClickRound \/ FindContainer \/ ContainerPass \/ ContainerDone
    \/ WindowPass \/ WindowDone

SpecStab == InitStab /\ [][NextStab]_vars

(***************************************************************************)
(* C4, C5: the URL helpers                                                 *)
(***************************************************************************)
\* u is a rooted path on the base origin
OnBase(url) == StartsWith(url, BASE) /\ Len(url) > Len(BASE) /\ url[Len(BASE) + 1] = "/"

\* s without the slashes at its two ends
Core(s) == RStrip(LStrip(s, {"/"}), {"/"})

\* s is one non-empty segment between slashes
SingleSegment(s) == Core(s) # <<>> /\ ~Contains(Core(s), "/")

\* s ends in a dot and a static-asset extension, in any case
EndsInStaticExt(s) ==
    \E e \in STATIC_EXTS :
        /\ Len(s) > Len(e)
        /\ s[Len(s) - Len(e)] = "."
        /\ Lower(SubSeq(s, Len(s) - Len(e) + 1, Len(s))) = e

LangRoots == {<<"/","e","n">>, <<"/","t","h">>}

UnderLang(s) == StartsWith(s, <<"/","e","n","/">>) \/ StartsWith(s, <<"/","t","h","/">>)

\* s without an optional /en or /th in front
WithoutLang(s) ==
    IF s \in LangRoots THEN <<"/">> ELSE IF UnderLang(s) THEN From(s, 4) ELSE s

\* The paths C4 says are accepted, in both scrapers
ClaimedProfilePath(path) ==
    /\ path \notin LangRoots
    /\ SingleSegment(WithoutLang(path))
    /\ Contains(Core(WithoutLang(path)), ".")
    /\ ~EndsInStaticExt(path)

\* The paths the scrapers accept
AcceptedProfilePath(v, path) ==
    LET eff == IF v = "en" THEN WithoutLang(path) ELSE path
    IN  /\ v = "th" => ~UnderLang(path)
        /\ SingleSegment(eff)
        /\ Contains(Core(eff), ".")
        /\ \A i \in 1..Len(Core(eff)) : AllowedChar(Core(eff)[i])
        /\ ~EndsInStaticExt(path)

\* C4 as stated: on the base origin, each scraper's _is_profile_abs_url accepts exactly
\* the paths that, with an optional /en or /th in front removed, are one non-empty
\* segment that contains a dot, do not end in a static-asset extension and are no
\* language root.
C4_AcceptsClaimedPaths ==
    (upc = "classified" /\ OnBase(u)) => (acc = ClaimedProfilePath(From(u, Len(BASE) + 1)))

\* C4, amended: on the base origin, _is_profile_abs_url of the en scraper accepts
\* exactly the URLs whose path component (what urlparse gives: without the parameters
\* after a ";" of the last segment) does not end in a static-asset extension and, with
\* an optional /en or /th in front removed, is one non-empty segment that contains a
\* dot and holds only ASCII letters, digits, "_", ".", "-" and U+0E01..U+0E59; the th
\* scraper accepts exactly those of them whose path does not begin with /en/ or /th/.
C4_AcceptsExactlyProfilePaths ==
    (upc = "classified" /\ OnBase(u)) => (acc = AcceptedProfilePath(variant, urlparse(u).path))

\* C4 (its case): a URL of the base origin with a dotted segment under /en has been
\* classified by the en scraper, and accepted.
C4_Witness ==
    /\ upc = "classified"
    /\ variant = "en"
    /\ u = BASE \o <<"/","e","n","/","a",".">>
    /\ acc

\* C5: URL normalization is idempotent, _norm_abs(_norm_abs(u)) = _norm_abs(u) for
\* every input string u.
C5_NormIdempotent == upc = "renormed" => n2 = n1

(***************************************************************************)
(* C1, C2, C3, C6, C7, C9, C10: one run of main()                          *)
(***************************************************************************)
\* C1: once make_driver() has returned a session, driver.quit() is executed exactly
\* once before main() is left, however the try block ended: the session is closed
\* exactly when quit has run once, no run is left with an open session, and quit is
\* never run twice or without a session.
C1_SessionReleasedOnce ==
    /\ quitCount = (IF session = "closed" THEN 1 ELSE 0)
    /\ pc = "exited" => session # "open"
    /\ session = "none" => pc \in {"start", "exited"}

\* C1 (its case): the write of the output raised after records were extracted, and
\* the run has ended with one quit.
C1_Witness ==
    /\ pc = "exited" /\ escaped /\ quitCount = 1 /\ session = "closed"
    /\ people # <<>> /\ fileOut = <<>>

\* The entries of the log for profile pages, in the order of the visits
ProfileLog == SelectSeq(log, LAMBDA e : e.kind = "profile")

\* The records of the visits that did not fail, in the order of the visits
RECURSIVE RecordsOf(_)
RecordsOf(entries) ==
    IF entries = <<>> THEN <<>>
    ELSE (IF Head(entries).outcome = "ok" THEN <<scrape_profile(Head(entries).url)>>
          ELSE <<>>) \o RecordsOf(Tail(entries))

\* C2: in the loop over the sorted links every URL before the current place has been
\* visited, in order, whichever of them failed; the records are those of the visits
\* that did not fail, one each and none for a failing one; a document is written or
\* printed only after every URL was visited, and it is that array of records.
C2_OneRecordPerNonFailingUrl ==
    li >= 1 =>
        /\ Len(ProfileLog) = li - 1
        /\ \A i \in 1..(li - 1) : ProfileLog[i].url = linkList[i]
        /\ people = RecordsOf(ProfileLog)
        /\ \A k \in 1..Len(fileOut) : li = Len(linkList) + 1 /\ fileOut[k] = people
        /\ \A k \in 1..Len(stdoutOut) : li = Len(linkList) + 1 /\ stdoutOut[k] = people

\* C2 (its case): a profile page failed, a later one gave its record, and the array
\* was written.
C2_Witness ==
    /\ fileOut # <<>>
    /\ \E i, j \in 1..Len(ProfileLog) :
        i < j /\ ProfileLog[i].outcome # "ok" /\ ProfileLog[j].outcome = "ok"
    /\ Len(fileOut[1]) < Len(linkList)

\* C3: when an error has left main() (the backend could not start, link discovery
\* raised, the output file could not be written), an empty JSON array has been
\* printed as the output.
C3_EmptyArrayOnFailure ==
    (pc = "exited" /\ escaped) => stdoutOut = << <<>> >>

\* C6: in the array of records every profile_url is non-empty and no two records have
\* the same profile_url.
C6_ProfileUrlsUnique ==
    \A i, j \in 1..Len(people) :
        /\ people[i].profile_url # <<>>
        /\ i # j => people[i].profile_url # people[j].profile_url

StrategyNames == {"js", "html", "nuxt"}
Orders == {o \in [1..3 -> StrategyNames] : \A i, j \in 1..3 : i # j => o[i] # o[j]}

\* What link discovery returns of a page when the strategies run in the order o
DiscoverInOrder(o, v, pg) ==
    sorted(ProfileLinksOf(v, Merge(Merge(Merge({}, Strategy(o[1], v, pg)),
                                         Strategy(o[2], v, pg)),
                                   Strategy(o[3], v, pg))))

\* C7: what visit_and_collect returns of a page is, sorted, what the three strategies
\* give in every order of running and uniting them; of the listing with two profile
\* links and a static asset it is exactly the two profile links; and the sorted
\* sequence main() works on is strictly ascending and holds every discovered link.
C7_DiscoveryOrderIndependent ==
    /\ pc = "v_returned" =>
        /\ \A o \in Orders : sorted(found) = DiscoverInOrder(o, variant, page)
        /\ page = ListingPage => sorted(found) = <<BASE \o H_ab, BASE \o H_cd>>
    /\ \A i \in 1..(Len(linkList) - 1) : StrLess(linkList[i], linkList[i + 1])
    /\ li >= 1 => Range(linkList) = links

\* C7 (its case): a page whose links come from two different strategies has been
\* visited and both links are returned.
C7_Witness ==
    /\ pc = "v_returned" /\ ~page.scriptErr
    /\ page.json # {} /\ page.nuxt # {} /\ page.anchors = {}
    /\ Cardinality(found) = 2

\* C9, as stated: make_driver tries Chrome first in every run; a failure of a pinned
\* Chrome is raised and Edge not tried; with "auto" a Chrome failure leads to Edge;
\* Edge is not started after Chrome started.
C9_ChromeAlwaysFirst ==
    pc # "start" =>
        /\ attempts[1].backend = "chrome"
        /\ (prefer = "chrome" /\ ~attempts[1].ok) =>
                (Len(attempts) = 1 /\ session = "none" /\ escaped)
        /\ (prefer = "auto" /\ ~attempts[1].ok) =>
                (Len(attempts) = 2 /\ attempts[2].backend = "edge")
        /\ attempts[1].ok => Len(attempts) = 1

\* C9: with the preference "chrome" or "auto" make_driver tries Chrome first: a
\* failure of a pinned Chrome is raised and Edge not tried, with "auto" the failure
\* leads to Edge, and Edge is not started after Chrome started; with any other
\* preference Edge is the only backend tried.
C9_BackendPolicy ==
    pc # "start" =>
        IF prefer \in {"chrome", "auto"}
        THEN /\ attempts[1].backend = "chrome"
             /\ (prefer = "chrome" /\ ~attempts[1].ok) =>
                    (Len(attempts) = 1 /\ session = "none" /\ escaped)
             /\ (prefer = "auto" /\ ~attempts[1].ok) =>
                    (Len(attempts) = 2 /\ attempts[2].backend = "edge")
             /\ attempts[1].ok => Len(attempts) = 1
        ELSE Len(attempts) = 1 /\ attempts[1].backend = "edge"

\* C9 (its case): with "auto" Chrome failed to start and the run goes on with Edge.
C9_Witness ==
    /\ prefer = "auto" /\ Len(attempts) = 2
    /\ ~attempts[1].ok /\ attempts[2].ok
    /\ session = "open" /\ pc = "v_get"

\* C10: a page, listing or profile, that was not ready within the timeout is still
\* worked on: its visit gives its links or its record.
C10_TimedOutPageStillYields ==
    \A k \in 1..Len(log) : log[k].outcome = "timeout" => log[k].yielded

(***************************************************************************)
(* C8: one invocation of _load_everything_in_view                          *)
(***************************************************************************)
\* The loops of one invocation stay within their numbers of turns: at most 80 click
\* rounds, 40 turns of the container loop, 20 turns of the document loop.
StabWithinBounds ==
    /\ clickRounds <= max_round
    /\ contPasses <= container_passes
    /\ winPasses <= max_pass

\* C8: on every page one invocation of _load_everything_in_view makes at most 80 click
\* rounds, 40 container-scroll turns and 20 document-scroll turns, and it does not
\* end by raising an error.
C8_BoundedAndReturns ==
    /\ StabWithinBounds
    /\ spc # "raised"

(***************************************************************************)
(* C11: errors of listing pages                                            *)
(***************************************************************************)
\* The visit of a listing page has raised in this run
ListingFailed == \E k \in 1..Len(log) : log[k].kind = "listing" /\ log[k].outcome # "ok"

\* C11: a run in which the session opened and the visit of a listing page raised still
\* sorts the links found, goes through the loop over all of them and comes to the
\* emission of the output before it ends.
C11_ListingErrorContained ==
    (pc = "exited" /\ session = "closed" /\ ListingFailed) =>
        (li >= 1 /\ li = Len(linkList) + 1)

(***************************************************************************)
(* scrape_profile: the info and education fields                           *)
(*                                                                         *)
(* A profile page is the document                                          *)
(*   <button role="tab">tab</button>            (when tab is not empty)    *)
(*   <div role="tabpanel"><p>line</p>...</div>  (one <p> for each line of  *)
(*                                               panel)                    *)
(*   <table><tr><th>cell</th>...</tr>           (a row with th = TRUE)     *)
(*          <tr><td>cell</td>...</tr></table>   (a row with th = FALSE;    *)
(*                                               no table without rows)    *)
(*   <ul><li>item</li>...</ul>                  (no list without items)    *)
(* with nothing between the elements; an element with an empty text has   *)
(* no text node.  The page stays as it is when the tab is clicked, and     *)
(* raises holds the places in EDU_TAB_TEXTS of the labels at whose tab the *)
(* session raises before the page is parsed (scrollIntoView, click() and   *)
(* the scripted click, page_source).                                       *)
(***************************************************************************)
\* sub in s
HasSub(s, sub) == \E i \in 0..(Len(s) - Len(sub)) : SubSeq(s, i + 1, i + Len(sub)) = sub

EXCLUDE_LINES == {
    <<"U+0E40","U+0E01","U+0E35","U+0E48","U+0E22","U+0E27","U+0E01","U+0E31","U+0E1A","U+0E40","U+0E23","U+0E32">>,
    <<"U+0E15","U+0E34","U+0E14","U+0E15","U+0E48","U+0E2D","U+0E40","U+0E23","U+0E32">>,
    <<"U+0E40","U+0E02","U+0E49","U+0E32","U+0E2A","U+0E39","U+0E48","U+0E23","U+0E30","U+0E1A","U+0E1A">>,
    <<"U+0E02","U+0E48","U+0E32","U+0E27","U+0E2A","U+0E32","U+0E23">>,
    <<"U+0E2A","U+0E34","U+0E48","U+0E07","U+0E2D","U+0E33","U+0E19","U+0E27","U+0E22","U+0E04","U+0E27","U+0E32","U+0E21","U+0E2A","U+0E30","U+0E14","U+0E27","U+0E01">>,
    <<"1","2","3"," ","U+0E16",".","U+0E21","U+0E34","U+0E15","U+0E23","U+0E20","U+0E32","U+0E1E">>,
    <<"C","o","l","l","e","g","e"," ","o","f"," ","C","o","m","p","u","t","i","n","g">>,
    <<"U+0E04","U+0E49","U+0E19","U+0E2B","U+0E32">>, <<"A","-">>, <<"A","+">>, <<"|">>}

EDU_TAB_TEXTS == <<
    <<"U+0E01","U+0E32","U+0E23","U+0E28","U+0E36","U+0E01","U+0E29","U+0E32">>,
    <<"E","d","u","c","a","t","i","o","n">>,
    <<"U+0E1B","U+0E23","U+0E30","U+0E27","U+0E31","U+0E15","U+0E34","U+0E01","U+0E32","U+0E23","U+0E28","U+0E36","U+0E01","U+0E29","U+0E32">>>>

EDU_KEYWORDS == {
    <<"U+0E01","U+0E32","U+0E23","U+0E28","U+0E36","U+0E01","U+0E29","U+0E32">>,
    <<"U+0E27","U+0E38","U+0E12","U+0E34">>,
    <<"U+0E27","U+0E38","U+0E12","U+0E34","U+0E01","U+0E32","U+0E23","U+0E28","U+0E36","U+0E01","U+0E29","U+0E32">>,
    <<"U+0E1B","U+0E23","U+0E30","U+0E27","U+0E31","U+0E15","U+0E34","U+0E01","U+0E32","U+0E23","U+0E28","U+0E36","U+0E01","U+0E29","U+0E32">>,
    <<"U+0E1B","U+0E23","U+0E34","U+0E0D","U+0E0D","U+0E32">>,
    <<"U+0E23","U+0E30","U+0E14","U+0E31","U+0E1A">>,
    <<"U+0E21","U+0E2B","U+0E32","U+0E27","U+0E34","U+0E17","U+0E22","U+0E32","U+0E25","U+0E31","U+0E22">>,
    <<"U","n","i","v","e","r","s","i","t","y">>, <<"B","a","c","h","e","l","o","r">>,
    <<"M","a","s","t","e","r">>, <<"P","h",".","D">>, <<"P","h","D">>,
    <<"D","e","g","r","e","e">>}

\* The words of a line scrape_profile takes out of info (the line in lower case)
INFO_EDU_WORDS == {
    <<"U+0E27","U+0E38","U+0E12","U+0E34">>,
    <<"U+0E27","U+0E38","U+0E12","U+0E34","U+0E01","U+0E32","U+0E23","U+0E28","U+0E36","U+0E01","U+0E29","U+0E32">>,
    <<"U+0E1B","U+0E23","U+0E30","U+0E27","U+0E31","U+0E15","U+0E34","U+0E01","U+0E32","U+0E23","U+0E28","U+0E36","U+0E01","U+0E29","U+0E32">>,
    <<"U+0E1B","U+0E23","U+0E34","U+0E0D","U+0E0D","U+0E32">>,
    <<"b","a","c","h","e","l","o","r">>, <<"m","a","s","t","e","r">>, <<"p","h",".","d">>,
    <<"p","h","d">>, <<"d","e","g","r","e","e">>, <<"e","d","u","c","a","t","i","o","n">>}

\* (Bachelor|Master|Ph\.?D|...) with re.I: the alternatives, in lower case
EDU_PATTERN == {
    <<"b","a","c","h","e","l","o","r">>, <<"m","a","s","t","e","r">>, <<"p","h","d">>,
    <<"p","h",".","d">>,
    <<"U+0E21","U+0E2B","U+0E32","U+0E27","U+0E34","U+0E17","U+0E22","U+0E32","U+0E25","U+0E31","U+0E22">>,
    <<"U+0E1B","U+0E23","U+0E34","U+0E0D","U+0E0D","U+0E32">>,
    <<"U+0E27","U+0E38","U+0E12","U+0E34">>}

\* [x.strip() for x in seq]
StripAll(seq) == [i \in 1..Len(seq) |-> Strip(seq[i])]

\* The non-empty strings of seq
NonEmpty(seq) == SelectSeq(seq, LAMBDA x : x # <<>>)

\* The line boundaries of str.splitlines() (those a model string can hold)
LINE_BREAKS == {"\n", "\r", "\f"}

\* s.splitlines(), i the place of the first line boundary of s: "\r\n" is one boundary,
\* and no line follows the last boundary
RECURSIVE splitlines(_)
SplitAtBreak(s, i) ==
    IF i > Len(s) THEN <<s>>
    ELSE <<SubSeq(s, 1, i - 1)>>
         \o splitlines(From(s, IF At(s, i, <<"\r", "\n">>) THEN i + 2 ELSE i + 1))

splitlines(s) == IF s = <<>> THEN <<>> ELSE SplitAtBreak(s, Until(s, 1, LINE_BREAKS))

\* sep.join(parts), sep a string
RECURSIVE JoinStr(_, _)
JoinStr(parts, sep) ==
    IF parts = <<>> THEN <<>>
    ELSE IF Len(parts) = 1 THEN parts[1]
    ELSE parts[1] \o sep \o JoinStr(Tail(parts), sep)

\* re.sub(r"\s+", " ", s).strip()
_clean_text(s) ==
    Join(NonEmpty(Split([i \in 1..Len(s) |-> IF s[i] \in WHITESPACE THEN " " ELSE s[i]], " ")),
         " ")

\* [_clean_text(x) for x in seq]
CleanAll(seq) == [i \in 1..Len(seq) |-> _clean_text(seq[i])]

\* any(k.lower() in t.lower() for k in EDU_KEYWORDS)
_has_edu_keyword(t) == t # <<>> /\ \E k \in EDU_KEYWORDS : HasSub(Lower(t), Lower(k))

\* re.search(r"(Bachelor|Master|Ph\.?D|...)", ln, re.I)
EduPatternSearch(ln) == \E k \in EDU_PATTERN : HasSub(Lower(ln), k)

\* any(ex in l for ex in EXCLUDE_LINES)
Excluded(l) == \E ex \in EXCLUDE_LINES : HasSub(l, ex)

\* clean_text(text) of scrape_kku_people.py
clean_text(text) ==
    Join(SelectSeq(NonEmpty(StripAll(splitlines(text))), LAMBDA l : ~Excluded(l)), "\n")

\* The first occurrence of every string of seq, in the order of seq
RECURSIVE Dedup(_)
Dedup(seq) ==
    IF seq = <<>> THEN <<>>
    ELSE LET front == Dedup(SubSeq(seq, 1, Len(seq) - 1))
         IN  IF \E i \in 1..Len(front) : front[i] = seq[Len(seq)]
             THEN front ELSE Append(front, seq[Len(seq)])

\* seqs[1] + seqs[2] + ...
RECURSIVE Flatten(_)
Flatten(seqs) == IF seqs = <<>> THEN <<>> ELSE Head(seqs) \o Flatten(Tail(seqs))

\* The text nodes of the page, in document order
TabNodes(pg) == IF pg.tab = <<>> THEN <<>> ELSE <<pg.tab>>
\* The text node BeautifulSoup makes of the text t of an element: a text of whitespace
\* only becomes one "\n" when it has one and one " " otherwise
TextNode(t) ==
    IF \A i \in 1..Len(t) : t[i] \in WHITESPACE
    THEN IF \E i \in 1..Len(t) : t[i] = "\n" THEN <<"\n">> ELSE <<" ">>
    ELSE t

\* The text nodes of elements with these texts: an empty text has no node
NodesOf(texts) == [i \in 1..Len(NonEmpty(texts)) |-> TextNode(NonEmpty(texts)[i])]

CellNodes(rows) == NodesOf(Flatten([i \in 1..Len(rows) |-> rows[i].cells]))
TextNodes(pg) ==
    NodesOf(TabNodes(pg)) \o NodesOf(pg.panel) \o CellNodes(pg.rows) \o NodesOf(pg.items)

\* tag.get_text(sep) of an element with these text nodes
get_text(nodes, sep) == Join(nodes, sep)

\* tag.get_text(sep, strip=True)
get_text_strip(nodes, sep) == Join(NonEmpty(StripAll(nodes)), sep)

\* parse_education(soup) of scrape_kku_people.py
parse_education_th(pg) == clean_text(get_text(TextNodes(pg), "\n"))

\* parse_info_and_position(info_tab)[0] of scrape_kku_people.py; info_tab is the first
\* div[role="tabpanel"]
parse_info_th(pg) == clean_text(get_text(NodesOf(pg.panel), "\n"))

\* The lines of info_text scrape_profile keeps: those with no education word
InfoLineKept(line) == \A w \in INFO_EDU_WORDS : ~HasSub(Lower(line), w)

\* info of scrape_profile of scrape_kku_people.py
info_th(pg) == Strip(Join(SelectSeq(splitlines(parse_info_th(pg)), InfoLineKept), "\n"))

\* education of scrape_profile of scrape_kku_people.py
education_th(pg) == Strip(parse_education_th(pg))

\* The text of one row of a table as parse_education joins it: the cells of its <td>
RowLine(r) == JoinStr(NonEmpty(CleanAll(r.cells)), <<" ", "|", " ">>)

\* rows of parse_education: the lines of the rows without a <th>
DataRows(rows) == SelectSeq(rows, LAMBDA r : ~r.th)
TableRows(rows) == NonEmpty([i \in 1..Len(DataRows(rows)) |-> RowLine(DataRows(rows)[i])])

\* items of parse_education
ListItems(pg) == NonEmpty(CleanAll(pg.items))

\* (s.strip() for s in t.split("\n") if s.strip())
LinesOf(t) == NonEmpty(StripAll(Split(t, "\n")))

\* The lines parse_education reads in the p, div and span elements, in document order:
\* those of the div, then those of each p in it
BlockLines(pg) ==
    LinesOf(get_text_strip(pg.panel, "\n"))
    \o Flatten([i \in 1..Len(pg.panel) |-> LinesOf(get_text_strip(<<pg.panel[i]>>, "\n"))])

\* blocks of parse_education
Blocks(pg) ==
    CleanAll(SelectSeq(BlockLines(pg),
                       LAMBDA ln : _has_edu_keyword(ln) \/ EduPatternSearch(ln)))

\* parse_education(soup) of scrape_kku_people_en.py
parse_education_en(pg) ==
    IF TableRows(pg.rows) # <<>> THEN Join(TableRows(pg.rows), "\n")
    ELSE IF ListItems(pg) # <<>> THEN Join(ListItems(pg), "\n")
    ELSE IF Blocks(pg) # <<>> THEN Join(Dedup(Blocks(pg)), "\n")
    ELSE _clean_text(get_text_strip(TextNodes(pg), " "))

\* A tab of the page carries the label t
TabFor(pg, t) == pg.tab # <<>> /\ HasSub(Strip(pg.tab), t)

\* education of scrape_profile of scrape_kku_people_en.py: the result of the first label of
\* EDU_TAB_TEXTS with a tab and a non-empty result, the result of the last tab parsed
\* otherwise, "" when no label has a tab that was parsed.  A label at whose tab the
\* session raises is passed over (except Exception: pass) and education stays as it was.
RECURSIVE EducationFromTabs(_, _, _)
EducationFromTabs(pg, k, education) ==
    IF k > Len(EDU_TAB_TEXTS) THEN education
    ELSE IF TabFor(pg, EDU_TAB_TEXTS[k])
         THEN IF k \in pg.raises
              THEN EducationFromTabs(pg, k + 1, education)
              ELSE IF Strip(parse_education_en(pg)) # <<>>
              THEN Strip(parse_education_en(pg))
              ELSE EducationFromTabs(pg, k + 1, <<>>)
         ELSE EducationFromTabs(pg, k + 1, education)

education_en(pg) == EducationFromTabs(pg, 1, <<>>)

\* The texts of the ul, ol, p, table, tr, td, div and span elements, in document order
RowTexts(r) ==
    <<get_text_strip(r.cells, " ")>> \o (IF r.th THEN <<>> ELSE StripAll(r.cells))
ElementTexts(pg) ==
    <<get_text_strip(pg.panel, " ")>> \o StripAll(pg.panel)
    \o (IF pg.rows = <<>> THEN <<>>
        ELSE <<get_text_strip(CellNodes(pg.rows), " ")>> \o Flatten([i \in 1..Len(pg.rows) |-> RowTexts(pg.rows[i])]))
    \o (IF pg.items = <<>> THEN <<>> ELSE <<get_text_strip(pg.items, " ")>>)

\* info of scrape_profile of scrape_kku_people_en.py
info_en(pg) == Strip(Join(SelectSeq(ElementTexts(pg), LAMBDA t : Len(t) > 3), "\n"))

\* The two fields, of either scraper
InfoOf(v, pg) == IF v = "th" THEN info_th(pg) ELSE info_en(pg)
EducationOf(v, pg) == IF v = "th" THEN education_th(pg) ELSE education_en(pg)

\* The profile pages of the check
MaxPanel == 2
MaxRows == 2
MaxItems == 2
PanelLines == <<
    <<"R","o","o","m"," ","5">>, <<"M","a","s","t","e","r"," "," ","K","K","U">>,
    <<"T","e","l"," ","|"," ","1","2">>,
    <<"U+0E1B","U+0E23","U+0E34","U+0E0D","U+0E0D","U+0E32","U+0E42","U+0E17">>>>
ItemLines == <<
    <<"P","h","D"," ","K","K","U">>, <<"R","o","o","m"," ","5">>>>
TableLines == <<
    [th |-> TRUE, cells |-> <<<<"D","e","g","r","e","e">>, <<"Y","e","a","r">>>>],
    [th |-> FALSE, cells |-> <<<<"B",".","S","c",".">>, <<"K","K","U">>>>],
    [th |-> FALSE, cells |-> <<<<"M",".","S","c",".">>, <<>>>>]>>
TabTexts == {<<>>, <<"E","d","u","c","a","t","i","o","n">>, <<"C","o","n","t","a","c","t">>,
             EDU_TAB_TEXTS[3]}

\* The sequences of at most n members of seq
SeqsUpTo(seq, n) ==
    UNION {{[i \in 1..k |-> seq[f[i]]] : f \in [1..k -> 1..Len(seq)]} : k \in 0..n}

ProfilePages ==
    [tab : TabTexts, panel : SeqsUpTo(PanelLines, MaxPanel),
     rows : SeqsUpTo(TableLines, MaxRows), items : SeqsUpTo(ItemLines, MaxItems),
     raises : SUBSET (1..Len(EDU_TAB_TEXTS))]

InitProfile ==
    /\ variant \in Variants
    /\ ppage \in ProfilePages
    /\ variant = "th" => ppage.raises = {}
    /\ ppc = "loaded"
    /\ rec = [info |-> <<>>, education |-> <<>>]
    /\ UrlIdle
    /\ RunIdle
    /\ StabIdle
    /\ ScholarIdle
    /\ HtmlIdle
    /\ ClickIdle
    /\ ContIdle
    /\ VisIdle

\* info_text, position = parse_info_and_position(...) and the filter of info_text
ParseInfo ==
    /\ ppc = "loaded"
    /\ rec' = [rec EXCEPT !.info = InfoOf(variant, ppage)]
    /\ ppc' = "info"
    /\ UNCHANGED <<variant, urlVars, runVars, stabVars, scholarVars, htmlVars, clickVars, contVars, visVars, ppage>>

\* education = ...
ParseEducation ==
    /\ ppc = "info"
    /\ rec' = [rec EXCEPT !.education = EducationOf(variant, ppage)]
    /\ ppc' = "done"
    /\ UNCHANGED <<variant, urlVars, runVars, stabVars, scholarVars, htmlVars, clickVars, contVars, visVars, ppage>>

NextProfile == ParseInfo \/ ParseEducation

SpecProfile == InitProfile /\ [][NextProfile]_vars

(***************************************************************************)
(* C12, C18: the fields of a record                                        *)
(***************************************************************************)
\* The education section by the structure of the page: the rows of the table without
\* header cells, each joined with " | "; with no table, the list items; with neither, the
\* lines with an education keyword, each once, in the order first seen
EducationByStructure(pg) ==
    IF pg.rows # <<>> THEN Join(TableRows(pg.rows), "\n")
    ELSE IF pg.items # <<>> THEN Join(ListItems(pg), "\n")
    ELSE Join(Dedup(Blocks(pg)), "\n")

\* C12: the education field of the record of a profile page is its table's rows without
\* header cells, pipe-joined, in row order; the newline-joined list items when the page has
\* no table; the lines with an education keyword, each once in first-seen order, when it
\* has neither; whatever tab the page has.
C12_EducationByStructure ==
    ppc = "done" => rec.education = EducationByStructure(ppage)

\* C18: no line of the info field of a record has an entry of EXCLUDE_LINES in it, in
\* either scraper.
C18_InfoWithoutChromeLines ==
    ppc = "done" => \A k \in 1..Len(splitlines(rec.info)) : ~Excluded(splitlines(rec.info)[k])

(***************************************************************************)
(* C13: the order of the navigations                                       *)
(***************************************************************************)
\* The entries of the log for listing pages, in the order of the visits
ListingLog == SelectSeq(log, LAMBDA e : e.kind = "listing")

\* C13: the pages navigated by a run are, in order, listing pages and then profile pages;
\* the listing pages are the seed paths in their declared order, all of them before the
\* first profile page; the profile pages are in strictly ascending order of their URLs;
\* and the records are those of the profile pages in the order of the visits.
C13_FixedNavigationOrder ==
    /\ log = ListingLog \o ProfileLog
    /\ Len(ListingLog) <= Len(SeedPaths(variant))
    /\ \A k \in 1..Len(ListingLog) : ListingLog[k].url = urljoin(BASE, SeedPaths(variant)[k])
    /\ ProfileLog # <<>> => Len(ListingLog) = Len(SeedPaths(variant))
    /\ \A i, j \in 1..Len(ProfileLog) :
        i < j => StrLess(ProfileLog[i].url, ProfileLog[j].url)
    /\ people = RecordsOf(ProfileLog)

\* C13 (its case): a run went to three listing pages and then to three profile pages, and
\* wrote their records.
C13_Witness ==
    /\ Len(ListingLog) = 3
    /\ Len(ProfileLog) = 3
    /\ Len(people) = 3
    /\ fileOut = <<people>>

(***************************************************************************)
(* visit_and_collect on a listing whose document changes with its tabs     *)
(*                                                                         *)
(* docs[k] is the document once the k-th tab label has been tried and the  *)
(* page has settled; the document after the loop is the one of the last    *)
(* label.  No call raises.                                                 *)
(***************************************************************************)
\* The documents of the check: nothing, a link in an anchor attribute, a link in the raw
\* markup only, a link in the framework state only
TabDocs == {
    EmptyPage,
    [anchors |-> {H_ab}, to |-> {}, json |-> {}, nuxt |-> {}, scriptErr |-> FALSE],
    [anchors |-> {}, to |-> {}, json |-> {H_cd}, nuxt |-> {}, scriptErr |-> FALSE],
    [anchors |-> {}, to |-> {}, json |-> {}, nuxt |-> {H_en_ab}, scriptErr |-> FALSE],
    [anchors |-> {H_bracket}, to |-> {}, json |-> {}, nuxt |-> {}, scriptErr |-> FALSE] }

InitVisit ==
    /\ variant \in Variants
    /\ docs \in [1..Len(TAB_LABELS) -> TabDocs]
    /\ vpc = "tabs"
    /\ vk = 1
    /\ vset = {}
    /\ vret = {}
    /\ UrlIdle
    /\ RunIdle
    /\ StabIdle
    /\ ScholarIdle
    /\ HtmlIdle
    /\ ClickIdle
    /\ ContIdle
    /\ ProfIdle

\* for label in TAB_LABELS: _click_tab(driver, label); _load_everything_in_view(driver);
\* links |= _collect_candidates_via_js(driver)
VisitTab ==
    /\ vpc = "tabs"
    /\ vset' = Merge(vset, _collect_candidates_via_js(docs[vk]))
    /\ IF Raised(vset') THEN vk' = vk /\ vpc' = "raised"
       ELSE IF vk < Len(TAB_LABELS)
       THEN vk' = vk + 1 /\ vpc' = "tabs"
       ELSE vk' = vk /\ vpc' = "final"
    /\ UNCHANGED <<variant, urlVars, runVars, stabVars, scholarVars, htmlVars, clickVars, contVars, profVars, docs, vret>>

\* After the loop: _load_everything_in_view(driver) and the three strategies, each united
\* into links
VisitFinal ==
    /\ vpc = "final"
    /\ vset' = Merge(Merge(Merge(vset, _collect_candidates_via_js(docs[vk])),
                           _fallback_extract_from_html(variant, docs[vk])),
                     _extract_from_nuxt(docs[vk]))
    /\ vpc' = IF Raised(vset') THEN "raised" ELSE "filter"
    /\ UNCHANGED <<variant, urlVars, runVars, stabVars, scholarVars, htmlVars, clickVars, contVars, profVars, docs, vk, vret>>

\* links = {u for u in links if _is_profile_abs_url(u)}; return links
VisitReturn ==
    /\ vpc = "filter"
    /\ vret' = ProfileLinksOf(variant, vset)
    /\ vpc' = IF Raised(vret') THEN "raised" ELSE "returned"
    /\ UNCHANGED <<variant, urlVars, runVars, stabVars, scholarVars, htmlVars, clickVars, contVars, profVars, docs, vk, vset>>

NextVisit == VisitTab \/ VisitFinal \/ VisitReturn

SpecVisit == InitVisit /\ [][NextVisit]_vars

\* C14: what visit_and_collect returns holds every profile link that any of the three
\* strategies gives of the document of any tab label.
C14_AllStrategiesOnEveryTab ==
    vpc = "returned" =>
        \A k \in 1..Len(TAB_LABELS) : \A name \in StrategyNames :
            ProfileLinksOf(variant, Strategy(name, variant, docs[k])) \subseteq vret

(***************************************************************************)
(* C15: script errors during stabilization                                 *)
(***************************************************************************)
\* C15: whatever the scripts of a turn of a scroll loop do, raising included, the turn
\* ends in the loop or past it, never with an exception that leaves
\* _load_everything_in_view.
C15_ScriptErrorsSwallowed ==
    [][(spc \in {"cscroll", "window"}) => (spc' \in {"cscroll", "window", "returned"})]_vars

(***************************************************************************)
(* _largest_scrollable_container                                           *)
(*                                                                         *)
(* An element is its scrollHeight, its clientHeight and whether its        *)
(* computed overflowY is 'hidden'; els is what querySelectorAll gives, in  *)
(* document order.                                                         *)
(***************************************************************************)
\* e => e.scrollHeight - e.clientHeight > 40 && getComputedStyle(e).overflowY !== 'hidden'
Scrollable(e) == e.scrollHeight - e.clientHeight > 40 /\ ~e.hidden

\* (a,b)=>(b.scrollHeight-b.clientHeight)-(a.scrollHeight-b.clientHeight)
Comparator(a, b) == (b.scrollHeight - b.clientHeight) - (a.scrollHeight - b.clientHeight)

\* x put into the sorted array arr behind every member that does not come after it
RECURSIVE Insert(_, _)
Insert(arr, x) ==
    IF arr # <<>> /\ Comparator(arr[Len(arr)], x) > 0
    THEN Append(Insert(SubSeq(arr, 1, Len(arr) - 1), x), arr[Len(arr)])
    ELSE Append(arr, x)

\* arr.sort(comparator): the sort of Array.prototype.sort is stable
RECURSIVE Sort_(_)
Sort_(arr) ==
    IF arr = <<>> THEN <<>>
    ELSE Insert(Sort_(SubSeq(arr, 1, Len(arr) - 1)), arr[Len(arr)])

\* The script: return sc[0] || null (null is the empty sequence, an element the sequence
\* of it alone)
LargestScript(elements) ==
    IF SelectSeq(elements, Scrollable) = <<>> THEN <<>>
    ELSE <<Sort_(SelectSeq(elements, Scrollable))[1]>>

\* _largest_scrollable_container(driver): None when the script raised
_largest_scrollable_container(elements, raised) ==
    IF raised THEN <<>> ELSE LargestScript(elements)

MaxEls == 3
ScrollHeights == {90, 91, 150, 200}
ClientHeights == {50, 150}
Elements == [scrollHeight : ScrollHeights, clientHeight : ClientHeights, hidden : BOOLEAN]

InitCont ==
    /\ variant \in Variants
    /\ els \in UNION {[1..k -> Elements] : k \in 0..MaxEls}
    /\ cpc = "called"
    /\ container = <<>>
    /\ UrlIdle
    /\ RunIdle
    /\ StabIdle
    /\ ScholarIdle
    /\ HtmlIdle
    /\ ClickIdle
    /\ ProfIdle
    /\ VisIdle

\* sc = _largest_scrollable_container(driver)
LargestContainer ==
    /\ cpc = "called"
    /\ \E raised \in BOOLEAN :
        /\ container' = _largest_scrollable_container(els, raised)
        /\ cpc' = IF raised THEN "swallowed" ELSE "returned"
    /\ UNCHANGED <<variant, urlVars, runVars, stabVars, scholarVars, htmlVars, clickVars, profVars, visVars, els>>

NextCont == LargestContainer

SpecCont == InitCont /\ [][NextCont]_vars

\* C16: when its script did not raise, _largest_scrollable_container returns null exactly
\* when no element has overflowY other than hidden and scrollHeight - clientHeight above 40,
\* and otherwise such an element whose scrollHeight - clientHeight is the largest of them.
C16_LargestExtent ==
    cpc = "returned" =>
        IF \A k \in 1..Len(els) : ~Scrollable(els[k])
        THEN container = <<>>
        ELSE /\ Len(container) = 1
             /\ \E k \in 1..Len(els) : els[k] = container[1] /\ Scrollable(els[k])
             /\ \A k \in 1..Len(els) :
                    Scrollable(els[k]) =>
                        els[k].scrollHeight - els[k].clientHeight
                            <= container[1].scrollHeight - container[1].clientHeight

(***************************************************************************)
(* C17: the origin of the links that pass the filter                       *)
(***************************************************************************)
\* The pieces of the candidate strings, and how many a candidate has at most
CandTokens == << <<"/">>, <<"/","/","c","o","m","p","u","t","i","n","g",".","k","k","u",".","a","c",".","t","h">>,
                 <<".","x">>, <<"@","x",".","y">>, <<"/","a",".","b">>, <<"/","e","n">>, <<"[">> >>
MaxCandTok == 3

\* What a strategy can pick up: the attribute values and the values in the markup that
\* start with "/"
CandInputs == {c \in Strings(CandTokens, MaxCandTok) : StartsWith(c, <<"/">>)}

InitOrigin ==
    /\ variant \in Variants
    /\ u \in CandInputs
    /\ upc = "candidate"
    /\ n1 = <<>>
    /\ n2 = <<>>
    /\ acc = FALSE
    /\ RunIdle
    /\ StabIdle
    /\ OtherIdle

\* The candidate as a strategy adds it to links: _norm_abs(_to_abs_url(r)) in
\* _collect_candidates_via_js, _norm_abs(urljoin(BASE, m.group(1))) in
\* _fallback_extract_from_html and _extract_from_nuxt
DiscoverCandidate ==
    /\ upc = "candidate"
    /\ \E strategy \in {"js", "markup"} :
        /\ n1' = IF strategy = "js" THEN _norm_abs(_to_abs_url(u))
                 ELSE _norm_abs(urljoin(BASE, u))
        /\ upc' = AfterCall(n1', "discovered")
    /\ UNCHANGED <<variant, u, n2, acc, runVars, stabVars, otherVars>>

\* links = {u for u in links if _is_profile_abs_url(u)}
FilterCandidate ==
    /\ upc = "discovered"
    /\ acc' = (_is_profile_abs_url(variant, n1) = "True")
    /\ upc' = IF _is_profile_abs_url(variant, n1) = "ValueError" THEN "raised" ELSE "filtered"
    /\ UNCHANGED <<variant, u, n1, n2, runVars, stabVars, otherVars>>

NextOrigin == DiscoverCandidate \/ FilterCandidate

SpecOrigin == InitOrigin /\ [][NextOrigin]_vars

\* url has the scheme and the host of BASE
SameOrigin(url) ==
    /\ urlparse(url).scheme = urlparse(BASE).scheme
    /\ urlparse(url).netloc = urlparse(BASE).netloc

\* C17: a link that passes the filter of visit_and_collect has the scheme and the host of
\* the base origin, whatever string starting with "/" it was discovered as.
C17_AcceptedIsSameOrigin ==
    (upc = "filtered" /\ acc) => SameOrigin(n1)

(***************************************************************************)
(* _click_texty_buttons                                                    *)
(*                                                                         *)
(* An element found is stale (every call with it raises) or live; a live   *)
(* element is displayed or not, enabled or not, its click() works or       *)
(* raises, and so does the script that clicks it.                          *)
(***************************************************************************)
\* What the body of "for el in els" does with one element: "native" (el.click() worked),
\* "script" (it raised and the script click worked) or "none" (the element is passed over:
\* a call raised, or it is not displayed or not enabled)
ClickOf(el) ==
    IF el.stale THEN "none"
    ELSE IF ~(el.displayed /\ el.enabled) THEN "none"
    ELSE IF el.native THEN "native"
    ELSE IF el.script THEN "script"
    ELSE "none"

\* The loop over els without its break
RECURSIVE ClickAll(_, _)
ClickAll(elements, i) ==
    IF i > Len(elements) THEN <<>>
    ELSE IF ClickOf(elements[i]) # "none"
         THEN <<[el |-> i, by |-> ClickOf(elements[i])]>> \o ClickAll(elements, i + 1)
         ELSE ClickAll(elements, i + 1)

\* for el in els: ... clicked = True; break -- the clicks made from the i-th element on
RECURSIVE ClickFirst(_, _)
ClickFirst(elements, i) ==
    IF i > Len(elements) THEN <<>>
    ELSE IF ClickOf(elements[i]) # "none"
         THEN <<[el |-> i, by |-> ClickOf(elements[i])]>>
         ELSE ClickFirst(elements, i + 1)

MaxFound == 2
Live(displayed, enabled, native, script) ==
    [stale |-> FALSE, displayed |-> displayed, enabled |-> enabled, native |-> native,
     script |-> script]
FoundElements == {
    [stale |-> TRUE, displayed |-> FALSE, enabled |-> FALSE, native |-> FALSE,
     script |-> FALSE],
    Live(FALSE, TRUE, TRUE, TRUE),
    Live(TRUE, FALSE, TRUE, TRUE),
    Live(TRUE, TRUE, TRUE, TRUE),
    Live(TRUE, TRUE, FALSE, TRUE),
    Live(TRUE, TRUE, FALSE, FALSE) }

InitClick ==
    /\ variant \in Variants
    /\ kpc = "loop"
    /\ krounds = 0
    /\ kels = <<>>
    /\ kclicked = <<>>
    /\ UrlIdle
    /\ RunIdle
    /\ StabIdle
    /\ ScholarIdle
    /\ HtmlIdle
    /\ ProfIdle
    /\ VisIdle
    /\ ContIdle

\* One round: els = scope.find_elements(...) ([] when it raises), the loop over els, and
\* "if not clicked: break"
KClickRound ==
    /\ kpc = "loop"
    /\ ~Exhausted(krounds, max_round)
    /\ krounds' = krounds + 1
    /\ \E matches \in UNION {[1..k -> FoundElements] : k \in 0..MaxFound} :
        /\ kels' = matches
        /\ kclicked' = ClickFirst(matches, 1)
        /\ kpc' = IF ClickFirst(matches, 1) # <<>> THEN "loop" ELSE "returned"
    /\ UNCHANGED <<variant, urlVars, runVars, stabVars, scholarVars, htmlVars, profVars, visVars, contVars>>

\* for _ in range(max_round) has used its rounds
KClickDone ==
    /\ kpc = "loop"
    /\ Exhausted(krounds, max_round)
    /\ kpc' = "returned"
    /\ UNCHANGED <<variant, urlVars, runVars, stabVars, scholarVars, htmlVars, profVars, visVars, contVars, krounds,
                   kels, kclicked>>

NextClick == KClickRound \/ KClickDone

SpecClick == InitClick /\ [][NextClick]_vars

(***************************************************************************)
(* C19: the rounds of _click_texty_buttons                                 *)
(***************************************************************************)
\* The i-th element of the round can be clicked: it is live, displayed and enabled, and its
\* click() or the script click works
Clickable(i) ==
    /\ ~kels[i].stale /\ kels[i].displayed /\ kels[i].enabled
    /\ kels[i].native \/ kels[i].script

\* C19: a round clicks at most one element; the element clicked is the first of the
\* elements found that is displayed and enabled and for which click() or, when click()
\* raises, the script click works, and it is clicked in that way; no element is clicked
\* when there is none; the loop goes on after a round exactly when the round clicked an
\* element and rounds are left, and it makes at most max_round rounds.
C19_OneClickPerRound ==
    /\ krounds <= max_round
    /\ Len(kclicked) <= 1
    /\ \A c \in Range(kclicked) :
        /\ c.el \in 1..Len(kels) /\ Clickable(c.el)
        /\ \A i \in 1..(c.el - 1) : ~Clickable(i)
        /\ c.by = IF kels[c.el].native THEN "native" ELSE "script"
    /\ kclicked = <<>> => \A i \in 1..Len(kels) : ~Clickable(i)
    /\ (kpc = "loop" /\ krounds > 0) => kclicked # <<>>
    /\ kpc = "returned" => (kclicked = <<>> \/ krounds = max_round)

\* C19 (its case): a round found two elements, passed over the first, whose click() and
\* script click both raise, and clicked the second by script; the loop goes on.
C19_Witness ==
    /\ kpc = "loop"
    /\ krounds > 1
    /\ Len(kels) = 2
    /\ kels[1] = Live(TRUE, TRUE, FALSE, FALSE)
    /\ kclicked = <<[el |-> 2, by |-> "script"]>>

(***************************************************************************)
(* C20: _fallback_extract_from_html on a quoted href                       *)
(*                                                                         *)
(* The markup is <a href="value"></a>, the value as it is: an apostrophe   *)
(* in it ends what the pattern takes.                                      *)
(***************************************************************************)
\* The pieces of the attribute values after their "/", and how many a value has at most
HrefTokens == << <<"a">>, <<".">>, <<"]">>, <<"/">>, <<"?","q">>, <<"'">> >>
MaxHrefTok == 3

\* The longest value of the claim: "/" and 199 characters
LongHref == <<"/">> \o [i \in 1..199 |-> IF i = 100 THEN "." ELSE "a"]

HrefInputs ==
    {<<"/">> \o p : p \in Strings(HrefTokens, MaxHrefTok) \ {<<>>}} \cup {LongHref}

InitHtml ==
    /\ variant \in Variants
    /\ hrefValue \in HrefInputs
    /\ hpc = "markup"
    /\ hset = {}
    /\ UrlIdle
    /\ RunIdle
    /\ StabIdle
    /\ ScholarIdle
    /\ ProfIdle
    /\ VisIdle
    /\ ContIdle
    /\ ClickIdle

\* links |= _fallback_extract_from_html(html)
FallbackExtract ==
    /\ hpc = "markup"
    /\ hset' = _fallback_extract_from_html(variant, [EmptyPage EXCEPT !.anchors = {hrefValue}])
    /\ hpc' = IF Raised(hset') THEN "raised" ELSE "extracted"
    /\ UNCHANGED <<variant, urlVars, runVars, stabVars, scholarVars, profVars, visVars, contVars, clickVars,
                   hrefValue>>

NextHtml == FallbackExtract

SpecHtml == InitHtml /\ [][NextHtml]_vars

\* C20: of markup with href="/P" in it, P of 1 to 199 characters without a quote,
\* _fallback_extract_from_html returns a set with the normalized URL of BASE + "/P" in it,
\* in both scrapers.
C20_QuotedHrefRecovered ==
    (hpc = "extracted" /\ \A i \in 1..Len(hrefValue) : hrefValue[i] \notin QUOTES)
        => _norm_abs(BASE \o hrefValue) \in hset

(***************************************************************************)
(* The Scholar scripts: scholarly_fetch.py ("fetch"),                      *)
(* scholar_search_authors.py ("search"), scholar_author_indices.py         *)
(* ("indices")                                                             *)
(*                                                                         *)
(* A JSON document is its type, whether it is the object with the index    *)
(* keys, and the items in it: the records of an array, the keys of         *)
(* cites_per_year.  An item is its place in the loop.  Standard output is  *)
(* open: the print of a result raises only for its data (json.dumps, the   *)
(* encoding of the text), before anything is written, and the print of the *)
(* literal "[]" or "{}" does not raise.                                    *)
(***************************************************************************)
Programs == {"fetch", "search", "indices"}

\* The document a script collects: results, or out with cpy in it
Collected(p, built, items) ==
    [type |-> IF p = "indices" THEN "object" ELSE "array", built |-> built, items |-> items]

\* "[]", and "{}" of scholar_author_indices.py
EmptyDocument(p) == Collected(p, FALSE, <<>>)

\* The command lines of the check: no argument, a blank one, an identifier or query
ArgvInputs == { << <<"p">> >>, << <<"p">>, <<" ">> >>, << <<"p">>, <<" ","A","1">> >> }

\* The test of main() for a run without an argument (sys.argv[1] is argv[2] here)
NoArgument(p, a) ==
    IF p = "search" THEN Len(a) < 2
    ELSE Len(a) < 2 \/ Strip(a[2]) = <<>>

\* A loop that never reaches its limit
NeverFull(r) == FALSE

SEARCH_LIMIT == 10

\* if len(results) >= 10: break
SearchFull(r) == Len(r) >= SEARCH_LIMIT

\* How many items a loop is given at most
MaxFeed == 12

InitScholar ==
    /\ variant = "none"
    /\ program \in Programs
    /\ argv \in ArgvInputs
    /\ gpc = "start"
    /\ fed = <<>>
    /\ results = <<>>
    /\ outBuilt = FALSE
    /\ stdout = <<>>
    /\ gescaped = FALSE
    /\ UrlIdle
    /\ RunIdle
    /\ StabIdle
    /\ ProfIdle
    /\ VisIdle
    /\ ContIdle
    /\ ClickIdle
    /\ HtmlIdle

\* main(): the test of sys.argv; print("[]") or print("{}") and return without an argument
CheckArgv ==
    /\ gpc = "start"
    /\ IF NoArgument(program, argv)
       THEN stdout' = Append(stdout, EmptyDocument(program)) /\ gpc' = "exited"
       ELSE stdout' = stdout /\ gpc' = "lookup"
    /\ UNCHANGED <<variant, urlVars, runVars, stabVars, profVars, visVars, contVars, clickVars,
                   htmlVars, program, argv, fed, results, outBuilt, gescaped>>

\* fetch, indices: scholarly.search_author_id and scholarly.fill of the author (indices:
\* out = {...} and the call of .items()), outside any try: an exception leaves main().
\* search: results = [] and scholarly.search_author(q) inside the try of main(): an
\* exception ends the loop before it began.
Lookup ==
    /\ gpc = "lookup"
    /\ \/ /\ gpc' = "loop"
          /\ outBuilt' = (program = "indices")
          /\ UNCHANGED gescaped
       \/ /\ IF program = "search"
             THEN gpc' = "emit" /\ UNCHANGED gescaped
             ELSE gpc' = "handler" /\ gescaped' = TRUE
          /\ UNCHANGED outBuilt
    /\ UNCHANGED <<variant, urlVars, runVars, stabVars, profVars, visVars, contVars, clickVars,
                   htmlVars, program, argv, fed, results, stdout>>

\* One item of the loop.  fetch: try: ... results.append({...}) except Exception: continue.
\* indices: try: cpy[str(k)] = int(v) except Exception: continue.  search: fill and append
\* inside the try around the loop (an exception ends the loop), then the test of the limit.
LoopItem ==
    /\ gpc = "loop"
    /\ Len(fed) < MaxFeed
    /\ \E outcome \in {"ok", "raise"} :
        /\ fed' = Append(fed, outcome)
        /\ results' = IF outcome = "ok" THEN Append(results, Len(fed) + 1) ELSE results
        /\ gpc' = IF program # "search" THEN "loop"
                  ELSE IF outcome = "raise" THEN "emit"
                  ELSE IF SearchFull(Append(results, Len(fed) + 1)) THEN "emit"
                  ELSE "loop"
    /\ UNCHANGED <<variant, urlVars, runVars, stabVars, profVars, visVars, contVars, clickVars,
                   htmlVars, program, argv, outBuilt, stdout, gescaped>>

\* The loop has no more items
LoopEnd ==
    /\ gpc = "loop"
    /\ gpc' = "emit"
    /\ UNCHANGED <<variant, urlVars, runVars, stabVars, profVars, visVars, contVars, clickVars,
                   htmlVars, program, argv, fed, results, outBuilt, stdout, gescaped>>

\* print(json.dumps(results, ensure_ascii=False)) (indices: of out), the last statement of
\* main(); an exception of it leaves main()
EmitResult ==
    /\ gpc = "emit"
    /\ \/ /\ stdout' = Append(stdout, Collected(program, outBuilt, results))
          /\ gpc' = "exited"
          /\ UNCHANGED gescaped
       \/ /\ gpc' = "handler"
          /\ gescaped' = TRUE
          /\ UNCHANGED stdout
    /\ UNCHANGED <<variant, urlVars, runVars, stabVars, profVars, visVars, contVars, clickVars,
                   htmlVars, program, argv, fed, results, outBuilt>>

\* try: main() except Exception: print("[]") (indices: print("{}"))
Handler ==
    /\ gpc = "handler"
    /\ stdout' = Append(stdout, EmptyDocument(program))
    /\ gpc' = "exited"
    /\ UNCHANGED <<variant, urlVars, runVars, stabVars, profVars, visVars, contVars, clickVars,
                   htmlVars, program, argv, fed, results, outBuilt, gescaped>>

NextScholar == CheckArgv \/ Lookup \/ LoopItem \/ LoopEnd \/ EmitResult \/ Handler

SpecScholar == InitScholar /\ [][NextScholar]_vars

\* The places of the items of a loop that raised nothing, in order
RECURSIVE OkItems(_)
OkItems(outcomes) ==
    IF outcomes = <<>> THEN <<>>
    ELSE IF outcomes[Len(outcomes)] = "ok"
         THEN Append(OkItems(SubSeq(outcomes, 1, Len(outcomes) - 1)), Len(outcomes))
         ELSE OkItems(SubSeq(outcomes, 1, Len(outcomes) - 1))

\* C21: every run of a Scholar script prints exactly one JSON document to standard
\* output: nothing before the script ends, and at its end the empty value ([] or {})
\* when the argument is missing or an exception left main(), otherwise the collected
\* result; in scholarly_fetch the collected records are those of the publications
\* that raised nothing, in order, whatever the other publications did; and
\* scholar_search_authors never prints more than 10 authors.
C21_OneJsonDocument ==
    /\ Len(stdout) <= 1
    /\ (gpc # "exited") => (stdout = <<>>)
    /\ (gpc = "exited") =>
         /\ Len(stdout) = 1
         /\ stdout[1] = IF Len(argv) < 2 \/ gescaped
                        THEN EmptyDocument(program)
                        ELSE Collected(program, outBuilt, results)
    /\ (program = "fetch") => (results = OkItems(fed))
    /\ (program = "search" /\ stdout # <<>>) => (Len(stdout[1].items) <= SEARCH_LIMIT)

\* A run of scholarly_fetch whose second publication raised printed the first and the third
C21_Witness ==
    /\ program = "fetch"
    /\ gpc = "exited"
    /\ ~gescaped
    /\ fed = <<"ok", "raise", "ok">>
    /\ stdout = <<Collected("fetch", FALSE, <<1, 3>>)>>

=============================================================================
